---- MODULE Spec2Model ----
(***************************************************************************)
(* EcoPulse ingestion pipeline: the SQLite storage layer                   *)
(* (src/storage/sqlite_storage.py), the orchestration layer               *)
(* (src/app_service.py), the fetch client and adapters (src/sources) and   *)
(* the transforms (src/transform).                                         *)
(*                                                                         *)
(* A table is the set of its rows; a row is the tuple the Python code      *)
(* binds to the INSERT statement.  Every statement of the program goes     *)
(* through the one sqlite3 connection SQLiteStorage.conn: conn_* is the    *)
(* database as that connection sees it (committed rows plus the rows of    *)
(* its open transaction), disk_* is the committed database.                *)
(***************************************************************************)
EXTENDS Integers, Sequences, FiniteSets, TLC

VARIABLES
    conn_env,          \* fact_env_hourly as seen through SQLiteStorage.conn
    disk_env,          \* fact_env_hourly, committed
    conn_macro,        \* fact_macro_annual as seen through SQLiteStorage.conn
    disk_macro,        \* fact_macro_annual, committed
    conn_loc,          \* dim_location as seen through SQLiteStorage.conn
    disk_loc,          \* dim_location, committed
    conn_run_log,      \* fetch_run_log as seen through SQLiteStorage.conn
    disk_run_log,      \* fetch_run_log, committed
    last_call,         \* history: the most recent storage call, its arguments, whether it raised
    applied_env,       \* history: key -> measures of the row most recently executed for the key
    applied_macro,     \* history: key -> value of the row most recently executed for the key
    pc,                \* thread -> where the thread is in AppService
    cycle,             \* thread -> the source cycle it is in ("none" outside a cycle)
    calls,             \* thread -> the storage calls its cycle still has to make
    exc,               \* thread -> the exception it is handling or died of (None: none)
    caller,            \* thread -> what invoked its cycle: fetch_all, the scheduler loop, or a direct call
    ran,               \* thread -> the cycles its current entry call has invoked, in order
    ret,               \* thread -> how its last entry call ended
    stop_event,        \* AppService._stop_event
    source_runs,       \* history: the Source Run Records written
    cycles_ended,      \* history: number of source cycle invocations that have ended
    fa_calls,          \* history: number of fetch_all invocations
    od_calls,          \* number of entry calls made on the on-demand thread
    starts,            \* number of scheduler threads started
    now,               \* time.time(), in ticks of the scheduler loop
    started_at,        \* history: the time at which the scheduler thread was last started
    sched_fired,       \* history: source -> cycles the running scheduler loop has triggered
    start_calls,       \* history: number of calls of start_scheduler
    next_due,          \* _run_scheduler: source -> its next-due time (next_env, next_macro, next_wiki)
    adapter,           \* the adapter whose fetch() / scrape_all() is running or ran last
    phase,             \* where that call is: "idle", "get", "build", "done", "raised"
    todo,              \* the requests of its enumeration not yet issued
    attempt,           \* _do_request: the loop variable attempt
    resp,              \* _do_request: resp
    error,             \* _do_request: error
    elapsed,           \* _do_request: time.time() - start, in ms
    errors,            \* history: str(exc) of every failed attempt of the request
    results,           \* the envelopes the adapter call has built
    requested,         \* history: the requests the adapter call has issued: label, url and params
    faults,            \* attempts of the adapter call that did not yield a parsable 200
    xf_call,           \* history: the most recent transform call and the upserts it issued
    status_callback,   \* AppService._status_callback
    emitted,           \* history: the messages passed to _notify, in the order of logger.info
    delivered,         \* history: the calls of callbacks made by _notify, in order
    notifying,         \* thread -> index in emitted of the message its _notify has logged and
                       \*           not yet passed on (0: the thread is not inside _notify)
    sent,              \* thread -> number of messages it has passed to _notify
    registrations,     \* number of calls of set_status_callback
    mongo_client,      \* MongoStorage.client is not None
    mongo_up,          \* the MongoDB server can be reached
    mongo_docs,        \* history: the sources whose envelopes were inserted into the audit store
    roundtrip,         \* the source label an adapter built last, and what the transform made of it
    _running,          \* RepeatedScheduler._running
    _timer,            \* RepeatedScheduler._timer: the number of a timer, 0 for None
    timers,            \* the threading.Timer objects made so far: number -> where the timer is
    made,              \* number of threading.Timer objects made
    invoked,           \* history: number of invocations of RepeatedScheduler.func
    stopped            \* history: stop() has returned and start() was not called since

storeVars == <<conn_env, disk_env, conn_macro, disk_macro, conn_loc, disk_loc,
               conn_run_log, disk_run_log>>
histVars == <<last_call, applied_env, applied_macro>>
svcVars == <<pc, cycle, calls, exc, caller, ran, ret, stop_event, source_runs,
             cycles_ended, fa_calls, od_calls, starts>>
clockVars == <<now, started_at, sched_fired, start_calls, next_due>>
netVars == <<adapter, phase, todo, attempt, resp, error, elapsed, errors, results, requested, faults>>
xfVars == <<xf_call>>
notifyVars == <<status_callback, emitted, delivered, notifying, sent, registrations>>
mongoVars == <<mongo_client, mongo_up, mongo_docs>>
labelVars == <<roundtrip>>
timerVars == <<_running, _timer, timers, made, invoked, stopped>>
vars == <<storeVars, histVars, svcVars, clockVars, netVars, xfVars, notifyVars, mongoVars,
          labelVars, timerVars>>

---------------------------------------------------------------------------
(* Values *)

\* Python None / SQL NULL
None == "None"
\* a Python value sqlite3 cannot bind to a parameter (a dict or a list taken from a JSON payload)
Unbindable == "{}"

\* longest run log
MaxRunLog == 2

Ts0 == "2024-01-01T00:00:00Z"
Ts1 == "2024-01-01T01:00:00Z"

\* Rows offered to upsert_env_hourly:
\* (location_key, ts_utc, temp_c, wind_kph, precip_mm, pm2_5, pm10, european_aqi, us_aqi)
EnvA1 == <<"ams", Ts0, "5.0", "10.0", "0.2", "3.3", "4.4", "55.0", "60.0">>
EnvA2 == <<"ams", Ts0, "7.5", None, "0.3", None, None, None, None>>
EnvA3 == <<"ams", Ts1, "6.5", "12.0", "0.1", "3.2", "4.1", "51", "48">>
EnvB1 == <<"bru", Ts1, "6.0", "11.0", "0.1", "3.0", "4.0", "50.0", "58.0">>
\* a row without timestamp, and a row with a measure that is a JSON object
EnvNoTs == <<"bru", None, "6.0", "11.0", "0.1", "3.0", "4.0", "50.0", "58.0">>
EnvObj == <<"bru", Ts0, Unbindable, "11.0", "0.1", "3.0", "4.0", "50.0", "58.0">>
EnvRowInputs == {EnvA1, EnvA2, EnvA3, EnvB1, EnvNoTs, EnvObj}

\* Batches offered to upsert_env_hourly: new keys; an update that nulls measures; one key
\* twice in a batch, either order; a batch rejected at its second row, one at its first.
EnvBatchInputs ==
    { <<EnvA1, EnvB1>>, <<EnvA2>>, <<EnvA1, EnvA2>>, <<EnvA2, EnvA1>>,
      <<EnvA3, EnvNoTs, EnvB1>>, <<EnvObj, EnvA2>> }

\* Rows offered to upsert_macro: (region_code, indicator_code, year, value)
MacroN1 == <<"NLD", "FP.CPI.TOTL.ZG", 2023, "4.2">>
MacroN2 == <<"NLD", "FP.CPI.TOTL.ZG", 2023, "4.5">>
MacroU1 == <<"USA", "FP.CPI.TOTL.ZG", 2023, None>>
MacroObj == <<"EUU", "FP.CPI.TOTL.ZG", 2023, Unbindable>>
MacroRowInputs == {MacroN1, MacroN2, MacroU1, MacroObj}

MacroBatchInputs ==
    { <<MacroN1>>, <<MacroN2>>, <<MacroN1, MacroU1>>, <<MacroN2, MacroN1>>,
      <<MacroU1, MacroObj, MacroN1>> }

---------------------------------------------------------------------------
(* fact_env_hourly *)

EnvKey(row) == <<row[1], row[2]>>
EnvMeasures(row) == SubSeq(row, 3, 9)

\* The statement fails on a row that violates NOT NULL of location_key or ts_utc,
\* or that holds a value sqlite3 cannot bind.
EnvRowAccepted(row) ==
    /\ row[1] # None
    /\ row[2] # None
    /\ \A i \in 1..9 : row[i] # Unbindable

\* Mutant: "wind_kph=temp_c" for "wind_kph=excluded.wind_kph": the stored row's own column
UpsertEnvRowStaleColumn(table, row) ==
    IF \E r \in table : EnvKey(r) = EnvKey(row)
    THEN {IF EnvKey(r) = EnvKey(row)
          THEN <<r[1], r[2], row[3], r[3], row[5], row[6], row[7], row[8], row[9]>>
          ELSE r : r \in table}
    ELSE table \cup {row}

\* Mutant: a merge, "<measure>=COALESCE(excluded.<measure>, <measure>)"
UpsertEnvRowCoalesce(table, row) ==
    IF \E r \in table : EnvKey(r) = EnvKey(row)
    THEN {IF EnvKey(r) = EnvKey(row)
          THEN [i \in 1..9 |-> IF i > 2 /\ row[i] # None THEN row[i] ELSE r[i]]
          ELSE r : r \in table}
    ELSE table \cup {row}

\* INSERT ... ON CONFLICT(location_key, ts_utc) DO UPDATE SET <the 7 measures>=excluded.<measure>
UpsertEnvRow(table, row) ==
    IF \E r \in table : EnvKey(r) = EnvKey(row)
    THEN {IF EnvKey(r) = EnvKey(row)
          THEN <<r[1], r[2], row[3], row[4], row[5], row[6], row[7], row[8], row[9]>>
          ELSE r : r \in table}
    ELSE table \cup {row}

\* cur.executemany: the rows one after the other; the first rejected row raises and
\* the rows executed before it stay in the connection's open transaction.
RECURSIVE ExecuteManyEnv(_, _)
ExecuteManyEnv(table, rows) ==
    IF rows = <<>> THEN [table |-> table, raised |-> FALSE]
    ELSE IF ~EnvRowAccepted(Head(rows)) THEN [table |-> table, raised |-> TRUE]
    ELSE ExecuteManyEnv(UpsertEnvRow(table, Head(rows)), Tail(rows))

---------------------------------------------------------------------------
(* fact_macro_annual *)

MacroKey(row) == <<row[1], row[2], row[3]>>

\* region_code, indicator_code and year are NOT NULL (year is an int: transform_macro
\* builds it with int()); the value must be bindable.
MacroRowAccepted(row) ==
    /\ row[1] # None
    /\ row[2] # None
    /\ row[4] # Unbindable

\* Mutant: a plain INSERT into a table without the PRIMARY KEY
UpsertMacroRowInsertOnly(table, row) == table \cup {row}

\* INSERT ... ON CONFLICT(region_code, indicator_code, year) DO UPDATE SET value=excluded.value
UpsertMacroRow(table, row) ==
    IF \E r \in table : MacroKey(r) = MacroKey(row)
    THEN {IF MacroKey(r) = MacroKey(row) THEN <<r[1], r[2], r[3], row[4]>> ELSE r : r \in table}
    ELSE table \cup {row}

RECURSIVE ExecuteManyMacro(_, _)
ExecuteManyMacro(table, rows) ==
    IF rows = <<>> THEN [table |-> table, raised |-> FALSE]
    ELSE IF ~MacroRowAccepted(Head(rows)) THEN [table |-> table, raised |-> TRUE]
    ELSE ExecuteManyMacro(UpsertMacroRow(table, Head(rows)), Tail(rows))

\* ORDER BY year DESC: the rows as a list, a row of a greater year before one of a lesser
\* (the order among rows of one year is whatever the engine makes it)
RECURSIVE OrderByYearDesc(_)
OrderByYearDesc(rows) ==
    IF rows = {} THEN <<>>
    ELSE LET first == CHOOSE r \in rows : \A q \in rows : q[3] <= r[3]
         IN  <<first>> \o OrderByYearDesc(rows \ {first})

\* Mutant: ORDER BY year ASC
macro_latestAscending(table, indicator) ==
    LET selected == OrderByYearDesc({r \in table : r[2] = indicator})
    IN  [i \in 1..Len(selected) |->
            LET r == selected[Len(selected) + 1 - i] IN <<r[1], r[3], r[4]>>]

\* SELECT region_code, year, value FROM fact_macro_annual WHERE indicator_code=?
\* ORDER BY year DESC, and fetchall(): every row of the indicator
macro_latest(table, indicator) ==
    LET selected == OrderByYearDesc({r \in table : r[2] = indicator})
    IN  [i \in 1..Len(selected) |-> <<selected[i][1], selected[i][3], selected[i][4]>>]

---------------------------------------------------------------------------
(* fetch_run_log *)

\* Mutant: "INSERT OR REPLACE" with a constant run_id: the newest record replaces the last
InsertRunLogReplace(table, started, finished, ok, message) ==
    IF table = <<>> THEN <<<<started, finished, IF ok THEN 1 ELSE 0, message>>>>
    ELSE [table EXCEPT ![Len(table)] = <<started, finished, IF ok THEN 1 ELSE 0, message>>]

\* Mutant: the new record is given the lowest run_id
InsertRunLogNewestFirst(table, started, finished, ok, message) ==
    <<<<started, finished, IF ok THEN 1 ELSE 0, message>>>> \o table

\* INSERT INTO fetch_run_log(started_at_utc, finished_at_utc, ok, message); run_id is
\* AUTOINCREMENT, so the new row is the last one.  ok is stored as int(ok).
InsertRunLog(table, started, finished, ok, message) ==
    Append(table, <<started, finished, IF ok THEN 1 ELSE 0, message>>)

---------------------------------------------------------------------------
(* dim_location *)

\* config.LOCATIONS as _seed_dimensions inserts them:
\* (location_key, name, lat, lon, wikipedia_url, wiki_title, wiki_summary)
SeedLocations ==
    { <<"ams", "Amsterdam", "52.3676", "4.9041", "https://en.wikipedia.org/wiki/Amsterdam", None, None>>,
      <<"bru", "Brussels", "50.8503", "4.3517", "https://en.wikipedia.org/wiki/Brussels", None, None>>,
      <<"nyc", "New York City", "40.7128", "-74.0060", "https://en.wikipedia.org/wiki/New_York_City", None, None>> }

\* Mutant: the UPDATE without its WHERE clause
UpdateLocationWikiAllRows(table, location_key, title, summary) ==
    {<<r[1], r[2], r[3], r[4], r[5], title, summary>> : r \in table}

\* UPDATE dim_location SET wiki_title=?, wiki_summary=? WHERE location_key=?
UpdateLocationWiki(table, location_key, title, summary) ==
    {IF r[1] = location_key THEN <<r[1], r[2], r[3], r[4], r[5], title, summary>> ELSE r : r \in table}

---------------------------------------------------------------------------
(* History of the rows executed, kept beside the tables *)

\* the rows of a batch that executemany executes: those before the first rejected one
ExecutedPrefix(rows, Accepted(_)) ==
    LET bad == {i \in 1..Len(rows) : ~Accepted(rows[i])}
    IN  IF bad = {} THEN rows
        ELSE SubSeq(rows, 1, (CHOOSE i \in bad : \A j \in bad : i <= j) - 1)

\* a row was never executed for the key
NoRow == <<>>

EnvKeyUniverse == {EnvKey(r) : r \in EnvRowInputs}
MacroKeyUniverse == {MacroKey(r) : r \in MacroRowInputs}

LastIndexWith(rows, Key(_), k) ==
    LET idx == {i \in 1..Len(rows) : Key(rows[i]) = k}
    IN  IF idx = {} THEN 0 ELSE CHOOSE i \in idx : \A j \in idx : j <= i

\* some executed row met a row with its key: one stored before, or an earlier row of the batch
HitsExisting(table, rows, Key(_)) ==
    \E i \in 1..Len(rows) :
        \/ \E r \in table : Key(r) = Key(rows[i])
        \/ \E j \in 1..(i - 1) : Key(rows[j]) = Key(rows[i])

\* the record kept of a storage call: repeat says that the call before it was the same
\* method with the same rows
Call(op, rows, raised, conflict) ==
    [op |-> op, rows |-> rows, raised |-> raised, conflict |-> conflict,
     repeat |-> (last_call.op = op /\ last_call.rows = rows)]

RecordEnv(applied, rows) ==
    [k \in DOMAIN applied |->
        LET i == LastIndexWith(rows, EnvKey, k)
        IN  IF i = 0 THEN applied[k] ELSE EnvMeasures(rows[i])]

RecordMacro(applied, rows) ==
    [k \in DOMAIN applied |->
        LET i == LastIndexWith(rows, MacroKey, k)
        IN  IF i = 0 THEN applied[k] ELSE <<rows[i][4]>>]

---------------------------------------------------------------------------
(* SQLiteStorage: each public method as one call on the shared connection *)

\* self.conn.commit() at the end of a call: everything the connection has pending,
\* the call's own statements included, becomes durable
Commit ==
    /\ disk_env' = conn_env'
    /\ disk_macro' = conn_macro'
    /\ disk_loc' = conn_loc'
    /\ disk_run_log' = conn_run_log'

\* the call raised before its commit
NoCommit == UNCHANGED <<disk_env, disk_macro, disk_loc, disk_run_log>>

upsert_env_hourly(rows) ==
    LET res == ExecuteManyEnv(conn_env, rows)
    IN  /\ conn_env' = res.table
        /\ UNCHANGED <<conn_macro, conn_loc, conn_run_log>>
        /\ IF res.raised THEN NoCommit ELSE Commit
        /\ last_call' = Call("upsert_env_hourly", rows, res.raised,
                              HitsExisting(conn_env, ExecutedPrefix(rows, EnvRowAccepted), EnvKey))
        /\ applied_env' = RecordEnv(applied_env, ExecutedPrefix(rows, EnvRowAccepted))
        /\ UNCHANGED <<applied_macro, svcVars, clockVars, netVars, xfVars, notifyVars, mongoVars, labelVars, timerVars>>

upsert_macro(rows) ==
    LET res == ExecuteManyMacro(conn_macro, rows)
    IN  /\ conn_macro' = res.table
        /\ UNCHANGED <<conn_env, conn_loc, conn_run_log>>
        /\ IF res.raised THEN NoCommit ELSE Commit
        /\ last_call' = Call("upsert_macro", rows, res.raised,
                              HitsExisting(conn_macro, ExecutedPrefix(rows, MacroRowAccepted), MacroKey))
        /\ applied_macro' = RecordMacro(applied_macro, ExecutedPrefix(rows, MacroRowAccepted))
        /\ UNCHANGED <<applied_env, svcVars, clockVars, netVars, xfVars, notifyVars, mongoVars, labelVars, timerVars>>

update_location_wiki(location_key, title, summary) ==
    /\ conn_loc' = UpdateLocationWiki(conn_loc, location_key, title, summary)
    /\ UNCHANGED <<conn_env, conn_macro, conn_run_log>>
    /\ Commit
    /\ last_call' = Call("update_location_wiki", <<location_key, title, summary>>, FALSE, FALSE)
    /\ UNCHANGED <<applied_env, applied_macro, svcVars, clockVars, netVars, xfVars, notifyVars, mongoVars, labelVars, timerVars>>

log_run(started, finished, ok, message) ==
    /\ Len(conn_run_log) < MaxRunLog
    /\ conn_run_log' = InsertRunLog(conn_run_log, started, finished, ok, message)
    /\ UNCHANGED <<conn_env, conn_macro, conn_loc>>
    /\ Commit
    /\ last_call' = Call("log_run", <<started, finished, ok, message>>, FALSE, FALSE)
    /\ UNCHANGED <<applied_env, applied_macro, svcVars, clockVars, netVars, xfVars, notifyVars, mongoVars, labelVars, timerVars>>

\* SQLiteStorage.__init__: the schema is created and the dimensions are seeded
InitStorage ==
    /\ conn_env = {} /\ disk_env = {}
    /\ conn_macro = {} /\ disk_macro = {}
    /\ conn_loc = SeedLocations /\ disk_loc = SeedLocations
    /\ conn_run_log = <<>> /\ disk_run_log = <<>>
    /\ last_call = [op |-> "init", rows |-> <<>>, raised |-> FALSE, conflict |-> FALSE, repeat |-> FALSE]
    /\ applied_env = [k \in EnvKeyUniverse |-> NoRow]
    /\ applied_macro = [k \in MacroKeyUniverse |-> NoRow]

Threads == {"od", "sched"}

\* a request that got no response: resp = None
NoResponse == [received |-> FALSE, status_code |-> 0, text |-> "", json |-> ""]

\* no source label built yet
NoLabel == [adapter |-> "none", category |-> <<>>, key |-> <<>>, label |-> <<>>,
            skipped |-> FALSE, got_category |-> <<>>, got_key |-> <<>>]

\* threading.Timer objects made at most
MaxTimers == 4

\* RepeatedScheduler.__init__: _timer = None, _running = False
InitScheduler ==
    /\ _running = FALSE
    /\ _timer = 0
    /\ timers = [i \in 1..MaxTimers |-> "unmade"]
    /\ made = 0
    /\ invoked = 0
    /\ stopped = FALSE

\* the adapters as AppService.__init__ constructs them: no call made yet
InitAdapters ==
    /\ adapter = "none"
    /\ phase = "idle"
    /\ todo = <<>>
    /\ attempt = 0
    /\ resp = NoResponse
    /\ error = None
    /\ elapsed = 0
    /\ errors = <<>>
    /\ results = <<>>
    /\ requested = <<>>
    /\ faults = 0

\* no transform call made yet
NoTransform == [op |-> "none", raw_results |-> <<>>, upserts |-> <<>>, raised |-> FALSE]

\* AppService.__init__: no scheduler thread, stop flag clear, nothing in flight
InitService ==
    /\ pc = [t \in Threads |-> IF t = "sched" THEN "none" ELSE "idle"]
    /\ cycle = [t \in Threads |-> "none"]
    /\ calls = [t \in Threads |-> <<>>]
    /\ exc = [t \in Threads |-> None]
    /\ caller = [t \in Threads |-> "none"]
    /\ ran = [t \in Threads |-> <<>>]
    /\ ret = [t \in Threads |-> "none"]
    /\ stop_event = FALSE
    /\ source_runs = <<>>
    /\ cycles_ended = 0
    /\ fa_calls = 0
    /\ od_calls = 0
    /\ starts = 0
    /\ now = 0
    /\ started_at = 0
    /\ sched_fired = [s \in {"environment", "macro", "wikipedia"} |-> 0]
    /\ start_calls = 0
    /\ next_due = [s \in {"environment", "macro", "wikipedia"} |-> 0]
    /\ InitAdapters
    /\ xf_call = NoTransform
    /\ status_callback = None
    /\ emitted = <<>>
    /\ delivered = <<>>
    /\ notifying = [t \in Threads |-> 0]
    /\ sent = [t \in Threads |-> 0]
    /\ registrations = 0
    /\ mongo_up \in BOOLEAN
    /\ mongo_client = mongo_up
    /\ mongo_docs = {}
    /\ roundtrip = NoLabel
    /\ InitScheduler

\* The storage layer alone: one caller making calls one after the other
InitStore == InitStorage /\ InitService

WikiTitleInputs == {<<"ams", "Amsterdam", "Capital of the Netherlands">>,
                    <<"lon", "London", "Capital of England">>}

NextStore ==
    \/ \E rows \in EnvBatchInputs : upsert_env_hourly(rows)
    \/ \E rows \in MacroBatchInputs : upsert_macro(rows)
    \/ \E u \in WikiTitleInputs : update_location_wiki(u[1], u[2], u[3])
    \/ \E ok \in BOOLEAN : log_run("t0", "t1", ok, IF ok THEN "ok" ELSE "boom")

SpecStore == InitStore /\ [][NextStore]_vars

---------------------------------------------------------------------------
(* AppService: the scheduler thread and an on-demand thread on the one connection. *)
(* A storage call is two steps of its thread, its statement and its commit, since   *)
(* no lock is held around them; everything else a thread does between two such      *)
(* steps touches only its own locals.                                               *)

\* entry calls made on the on-demand thread
MaxCalls == 2
\* calls of start_scheduler
MaxStarts == 2

Sources == <<"environment", "macro", "wikipedia">>

\* str(exc) of the AttributeError that self.sqlite.log_source_run raises: SQLiteStorage
\* defines no method log_source_run (and _init_schema creates no table for such records)
AttributeErrorMsg == "'SQLiteStorage' object has no attribute 'log_source_run'"
\* str(exc) of the sqlite3 error of a rejected row
RejectedMsg == "sqlite3: row rejected"

StorageCall(op, arg) == [op |-> op, arg |-> arg]

\* The storage calls the transform of a cycle makes, for the payloads the cycle fetched:
\* transform_environment one upsert_env_hourly per location with rows, transform_macro one
\* upsert_macro if there are rows, fetch_wikipedia one update_location_wiki per location
\* whose page was scraped.
CycleCallInputs(source) ==
    CASE source = "environment" ->
            { <<>>,
              <<StorageCall("upsert_env_hourly", <<EnvA1>>), StorageCall("upsert_env_hourly", <<EnvB1>>)>>,
              <<StorageCall("upsert_env_hourly", <<EnvB1, EnvNoTs>>)>> }
      [] source = "macro" ->
            { <<>>,
              <<StorageCall("upsert_macro", <<MacroN1, MacroU1>>)>>,
              <<StorageCall("upsert_macro", <<MacroN2, MacroObj>>)>> }
      [] source = "wikipedia" ->
            { <<>>,
              <<StorageCall("update_location_wiki", <<"ams", "Amsterdam", "Capital of the Netherlands">>)>> }
      [] OTHER -> {}

\* no cycle triggered yet
NoneFired == [s \in {"environment", "macro", "wikipedia"} |-> 0]

IsAlive(t) == pc[t] \notin {"none", "dead", "exited"}

\* a source cycle is entered: started = now, _notify("Fetching ...")
EnterCycle(t, source, by) ==
    /\ pc' = [pc EXCEPT ![t] = "fetch"]
    /\ cycle' = [cycle EXCEPT ![t] = source]
    /\ caller' = [caller EXCEPT ![t] = by]
    /\ ran' = [ran EXCEPT ![t] = <<source>>]
    /\ exc' = [exc EXCEPT ![t] = None]
    /\ calls' = [calls EXCEPT ![t] = <<>>]

\* fetch_all, up to its first cycle: started = now, _notify, ok = True, self.fetch_environment()
fetch_all(t) ==
    /\ UNCHANGED <<clockVars, netVars, xfVars, notifyVars, mongoVars, labelVars, timerVars>>
    /\ t = "od" /\ pc[t] = "idle" /\ od_calls < MaxCalls
    /\ EnterCycle(t, Sources[1], "fetch_all")
    /\ ret' = [ret EXCEPT ![t] = "none"]
    /\ od_calls' = od_calls + 1
    /\ fa_calls' = fa_calls + 1
    /\ UNCHANGED <<storeVars, histVars, stop_event, source_runs, cycles_ended, starts>>

\* fetch_environment, fetch_macro or fetch_wikipedia called on its own
fetch_source(t, source) ==
    /\ UNCHANGED <<clockVars, netVars, xfVars, notifyVars, mongoVars, labelVars, timerVars>>
    /\ t = "od" /\ pc[t] = "idle" /\ od_calls < MaxCalls
    /\ EnterCycle(t, source, "direct")
    /\ ret' = [ret EXCEPT ![t] = "none"]
    /\ od_calls' = od_calls + 1
    /\ UNCHANGED <<storeVars, histVars, stop_event, source_runs, cycles_ended, fa_calls, starts>>

\* str(exc) of the pymongo error of an insert_one that cannot reach the server
MongoErrorMsg == "pymongo: no servers found yet"

\* Variant: log_fetch with its insert_one inside "try ... except PyMongoError: pass"
LogFetchRaisesNever(available, up) == FALSE

\* "if self.mongo.available: self.mongo.log_fetch(res)": available is "self.client is not
\* None", and the client is the one __init__ connected (kept if the server answered then,
\* never looked at again); insert_one raises if the server cannot be reached now
LogFetchRaises(available, up) == available /\ ~up

\* the MongoDB server goes down or comes back
mongo_server(up) ==
    /\ mongo_up # up
    /\ mongo_up' = up
    /\ UNCHANGED <<mongo_client, mongo_docs>>
    /\ UNCHANGED <<storeVars, histVars, svcVars, clockVars, netVars, xfVars, notifyVars, labelVars, timerVars>>

\* the try block up to the first storage call: the adapter fetches, the envelopes are
\* written to the audit store if it is available, the transform builds its rows
cycle_fetch(t, storage_calls) ==
    /\ UNCHANGED <<clockVars, netVars, xfVars, notifyVars, mongo_client, mongo_up, labelVars, timerVars>>
    /\ pc[t] = "fetch"
    /\ IF LogFetchRaises(mongo_client, mongo_up)
       THEN /\ exc' = [exc EXCEPT ![t] = MongoErrorMsg]
            /\ pc' = [pc EXCEPT ![t] = "except"]
            /\ UNCHANGED <<calls, mongo_docs>>
       ELSE /\ mongo_docs' = IF mongo_client THEN mongo_docs \cup {cycle[t]} ELSE mongo_docs
            /\ calls' = [calls EXCEPT ![t] = storage_calls]
            /\ pc' = [pc EXCEPT ![t] = IF storage_calls = <<>> THEN "log_source_run" ELSE "execute"]
            /\ UNCHANGED exc
    /\ UNCHANGED <<storeVars, histVars, cycle, caller, ran, ret, stop_event, source_runs,
                   cycles_ended, fa_calls, od_calls, starts>>

\* the statement of the next storage call of the cycle: cur.executemany / cur.execute
cycle_execute(t) ==
    /\ UNCHANGED <<clockVars, netVars, xfVars, notifyVars, mongoVars, labelVars, timerVars>>
    /\ pc[t] = "execute"
    /\ LET call == Head(calls[t])
           env == IF call.op = "upsert_env_hourly" THEN ExecuteManyEnv(conn_env, call.arg)
                  ELSE [table |-> conn_env, raised |-> FALSE]
           macro == IF call.op = "upsert_macro" THEN ExecuteManyMacro(conn_macro, call.arg)
                    ELSE [table |-> conn_macro, raised |-> FALSE]
           raised == env.raised \/ macro.raised
       IN  /\ conn_env' = env.table
           /\ conn_macro' = macro.table
           /\ conn_loc' = IF call.op = "update_location_wiki"
                          THEN UpdateLocationWiki(conn_loc, call.arg[1], call.arg[2], call.arg[3])
                          ELSE conn_loc
           /\ pc' = [pc EXCEPT ![t] = IF raised THEN "except" ELSE "commit"]
           /\ exc' = [exc EXCEPT ![t] = IF raised THEN RejectedMsg ELSE @]
    /\ UNCHANGED <<conn_run_log, disk_env, disk_macro, disk_loc, disk_run_log, histVars, cycle, calls,
                   caller, ran, ret, stop_event, source_runs, cycles_ended, fa_calls, od_calls, starts>>

\* self.conn.commit() issued by a thread: whatever the connection has pending, of any
\* thread, becomes durable
ConnCommit ==
    /\ disk_env' = conn_env
    /\ disk_macro' = conn_macro
    /\ disk_loc' = conn_loc
    /\ disk_run_log' = conn_run_log
    /\ UNCHANGED <<conn_env, conn_macro, conn_loc, conn_run_log>>

\* the commit of the storage call, then on to the next call of the cycle
cycle_commit(t) ==
    /\ UNCHANGED <<clockVars, netVars, xfVars, notifyVars, mongoVars, labelVars, timerVars>>
    /\ pc[t] = "commit"
    /\ ConnCommit
    /\ calls' = [calls EXCEPT ![t] = Tail(@)]
    /\ pc' = [pc EXCEPT ![t] = IF Tail(calls[t]) = <<>> THEN "log_source_run" ELSE "execute"]
    /\ UNCHANGED <<histVars, cycle, exc, caller, ran, ret, stop_event, source_runs,
                   cycles_ended, fa_calls, od_calls, starts>>

\* self._log_source_run(name, started, True, "ok", n): the lookup of
\* self.sqlite.log_source_run raises AttributeError; no record is written
_log_source_run(t) ==
    /\ UNCHANGED <<clockVars, netVars, xfVars, notifyVars, mongoVars, labelVars, timerVars>>
    /\ pc[t] = "log_source_run"
    /\ exc' = [exc EXCEPT ![t] = AttributeErrorMsg]
    /\ pc' = [pc EXCEPT ![t] = "except"]
    /\ UNCHANGED <<storeVars, histVars, cycle, calls, caller, ran, ret, stop_event, source_runs,
                   cycles_ended, fa_calls, od_calls, starts>>

\* where an exception that leaves a cycle goes: fetch_all catches it, _run_scheduler and
\* a direct caller do not
Propagate(by) ==
    CASE by = "fetch_all" -> "fetch_all_except"
      [] by = "scheduler" -> "dead"
      [] by = "direct" -> "idle"

\* the except block of the cycle: self._log_source_run(name, started, False, str(exc), 0)
\* raises AttributeError in its turn, which leaves the cycle in place of the first exception
cycle_except(t) ==
    /\ UNCHANGED <<clockVars, netVars, xfVars, notifyVars, mongoVars, labelVars, timerVars>>
    /\ pc[t] = "except"
    /\ exc' = [exc EXCEPT ![t] = AttributeErrorMsg]
    /\ pc' = [pc EXCEPT ![t] = Propagate(caller[t])]
    /\ ret' = [ret EXCEPT ![t] = IF caller[t] = "direct" THEN "raised" ELSE @]
    /\ cycle' = [cycle EXCEPT ![t] = "none"]
    /\ calls' = [calls EXCEPT ![t] = <<>>]
    /\ cycles_ended' = cycles_ended + 1
    /\ UNCHANGED <<storeVars, histVars, caller, ran, stop_event, source_runs, fa_calls, od_calls, starts>>

\* Mutant: the except block without its "ok = False"
FetchAllFailureKeepsOk(e) == [ok |-> TRUE, logged_ok |-> FALSE, message |-> e]

\* what the except block of fetch_all makes of the exception: ok = False, and the Run
\* Record's ok and message
FetchAllFailure(e) == [ok |-> FALSE, logged_ok |-> FALSE, message |-> e]

\* except Exception as exc in fetch_all: ok = False, _notify, the INSERT of log_run
fetch_all_except(t) ==
    /\ UNCHANGED <<clockVars, netVars, xfVars, notifyVars, mongoVars, labelVars, timerVars>>
    /\ pc[t] = "fetch_all_except"
    /\ LET f == FetchAllFailure(exc[t])
       IN  /\ conn_run_log' = InsertRunLog(conn_run_log, "t0", "t1", f.logged_ok, f.message)
           /\ ret' = [ret EXCEPT ![t] = IF f.ok THEN "True" ELSE "False"]
    /\ pc' = [pc EXCEPT ![t] = "fetch_all_commit"]
    /\ UNCHANGED <<conn_env, conn_macro, conn_loc, disk_env, disk_macro, disk_loc, disk_run_log,
                   histVars, cycle, calls, exc, caller, ran, stop_event, source_runs, cycles_ended,
                   fa_calls, od_calls, starts>>

\* the commit of log_run, and return ok
fetch_all_commit(t) ==
    /\ UNCHANGED <<clockVars, netVars, xfVars, notifyVars, mongoVars, labelVars, timerVars>>
    /\ pc[t] = "fetch_all_commit"
    /\ ConnCommit
    /\ pc' = [pc EXCEPT ![t] = "idle"]
    /\ UNCHANGED <<histVars, cycle, calls, exc, caller, ran, ret, stop_event, source_runs,
                   cycles_ended, fa_calls, od_calls, starts>>

\* Mutant: start_scheduler without its "is_alive(): return"
StartsThreadAlways(alive) == TRUE

\* not (self._scheduler_thread and self._scheduler_thread.is_alive()): a thread is started
StartsThread(alive) == ~alive

\* start_scheduler: nothing if the thread is alive, else clear the stop flag and start
\* a thread on _run_scheduler
start_scheduler ==
    /\ UNCHANGED <<netVars, xfVars, notifyVars, mongoVars, labelVars, timerVars>>
    /\ start_calls < MaxStarts
    /\ start_calls' = start_calls + 1
    /\ IF ~StartsThread(IsAlive("sched"))
       THEN UNCHANGED <<pc, exc, ran, stop_event, starts, started_at, sched_fired>>
       ELSE /\ stop_event' = FALSE
            /\ pc' = [pc EXCEPT !["sched"] = "run_scheduler"]
            /\ exc' = [exc EXCEPT !["sched"] = None]
            /\ ran' = [ran EXCEPT !["sched"] = <<>>]
            /\ starts' = starts + 1
            /\ started_at' = now
            /\ sched_fired' = NoneFired
    /\ UNCHANGED <<now, next_due>>
    /\ UNCHANGED <<storeVars, histVars, cycle, calls, caller, ret, source_runs, cycles_ended,
                   fa_calls, od_calls>>

\* stop_scheduler: self._stop_event.set()
stop_scheduler ==
    /\ UNCHANGED <<clockVars, netVars, xfVars, notifyVars, mongoVars, labelVars, timerVars>>
    /\ stop_event' = TRUE
    /\ UNCHANGED <<storeVars, histVars, pc, cycle, calls, exc, caller, ran, ret, source_runs,
                   cycles_ended, fa_calls, od_calls, starts>>

\* _run_scheduler up to the test of its loop: next_env = next_macro = next_wiki =
\* time.time(); the loop ends if the stop flag is set, else its body is entered
_run_scheduler(t) ==
    /\ UNCHANGED <<netVars, xfVars, notifyVars, mongoVars, labelVars, timerVars>>
    /\ t = "sched" /\ pc[t] = "run_scheduler"
    /\ next_due' = [s \in DOMAIN next_due |-> now]
    /\ pc' = [pc EXCEPT ![t] = IF stop_event THEN "exited" ELSE "loop_body"]
    /\ UNCHANGED <<now, started_at, sched_fired, start_calls>>
    /\ UNCHANGED <<storeVars, histVars, cycle, calls, exc, caller, ran, ret, stop_event, source_runs,
                   cycles_ended, fa_calls, od_calls, starts>>

\* the body of the loop up to its first cycle: now = time.time() >= next_env, so
\* _notify("Scheduler: triggering environment fetch") and self.fetch_environment(); the
\* stop flag is not looked at
scheduler_trigger(t) ==
    /\ UNCHANGED <<netVars, xfVars, notifyVars, mongoVars, labelVars, timerVars>>
    /\ t = "sched" /\ pc[t] = "loop_body"
    /\ now >= next_due[Sources[1]]
    /\ EnterCycle(t, Sources[1], "scheduler")
    /\ sched_fired' = [sched_fired EXCEPT ![Sources[1]] = @ + 1]
    /\ UNCHANGED <<now, started_at, start_calls, next_due>>
    /\ UNCHANGED <<storeVars, histVars, ret, stop_event, source_runs, cycles_ended, fa_calls,
                   od_calls, starts>>

Init == InitStorage /\ InitService

Next ==
    \/ fetch_all("od")
    \/ \E i \in 1..Len(Sources) : fetch_source("od", Sources[i])
    \/ start_scheduler
    \/ stop_scheduler
    \/ _run_scheduler("sched")
    \/ scheduler_trigger("sched")
    \/ \E t \in Threads :
         \/ \E storage_calls \in CycleCallInputs(cycle[t]) : cycle_fetch(t, storage_calls)
         \/ cycle_execute(t)
         \/ cycle_commit(t)
         \/ _log_source_run(t)
         \/ cycle_except(t)
         \/ fetch_all_except(t)
         \/ fetch_all_commit(t)

Spec == Init /\ [][Next]_vars

\* The on-demand thread alone, beside a MongoDB server that goes down and comes back
NextAudit ==
    \/ \E up \in BOOLEAN : mongo_server(up)
    \/ fetch_all("od")
    \/ \E i \in 1..Len(Sources) : fetch_source("od", Sources[i])
    \/ \E storage_calls \in CycleCallInputs(cycle["od"]) : cycle_fetch("od", storage_calls)
    \/ cycle_execute("od")
    \/ cycle_commit("od")
    \/ _log_source_run("od")
    \/ cycle_except("od")
    \/ fetch_all_except("od")
    \/ fetch_all_commit("od")

SpecAudit == Init /\ [][NextAudit]_vars

\* the latest time looked at
MaxNow == 4

\* One tick of the scheduler loop's clock passes.  Cycles take no time: the clock stands
\* still while the scheduler thread is at work.
tick ==
    /\ now < MaxNow
    /\ pc["sched"] \in {"none", "dead", "exited"}
    /\ now' = now + 1
    /\ UNCHANGED <<storeVars, histVars, svcVars, started_at, sched_fired, start_calls, next_due,
                   netVars, xfVars, notifyVars, mongoVars, labelVars, timerVars>>

\* The scheduler alone: nobody fetches on demand
NextSched ==
    \/ start_scheduler
    \/ stop_scheduler
    \/ _run_scheduler("sched")
    \/ scheduler_trigger("sched")
    \/ \E storage_calls \in CycleCallInputs(cycle["sched"]) : cycle_fetch("sched", storage_calls)
    \/ cycle_execute("sched")
    \/ cycle_commit("sched")
    \/ _log_source_run("sched")
    \/ cycle_except("sched")
    \/ tick

SpecSched == Init /\ [][NextSched]_vars

---------------------------------------------------------------------------
(* Status messages: _notify as the two steps it is made of, logger.info and  *)
(* the call of the callback, since no lock is held between them.             *)

\* calls of set_status_callback
MaxRegistrations == 2

\* The messages a thread passes to _notify, in program order: the scheduler thread in
\* _run_scheduler and fetch_environment, the on-demand thread in fetch_all (whose
\* environment cycle raises before its own "failed" message)
StatusMessages(t) ==
    IF t = "sched"
    THEN <<"Scheduler: triggering environment fetch", "Fetching environment data...">>
    ELSE <<"Running data fetch...", "Fetching environment data...",
           "Fetch failed: 'SQLiteStorage' object has no attribute 'log_source_run'">>

\* self._status_callback = callback
set_status_callback(callback) ==
    /\ registrations < MaxRegistrations
    /\ registrations' = registrations + 1
    /\ status_callback' = callback
    /\ UNCHANGED <<emitted, delivered, notifying, sent>>
    /\ UNCHANGED <<storeVars, histVars, svcVars, clockVars, netVars, xfVars, mongoVars, labelVars, timerVars>>

\* _notify is entered with the thread's next message: logger.info(message)
_notify(t) ==
    /\ notifying[t] = 0
    /\ sent[t] < Len(StatusMessages(t))
    /\ emitted' = Append(emitted, StatusMessages(t)[sent[t] + 1])
    /\ notifying' = [notifying EXCEPT ![t] = Len(emitted) + 1]
    /\ sent' = [sent EXCEPT ![t] = @ + 1]
    /\ UNCHANGED <<status_callback, delivered, registrations>>
    /\ UNCHANGED <<storeVars, histVars, svcVars, clockVars, netVars, xfVars, mongoVars, labelVars, timerVars>>

\* if self._status_callback: self._status_callback(message)
_notify_callback(t) ==
    /\ notifying[t] # 0
    /\ delivered' = IF status_callback # None
                    THEN Append(delivered, [to |-> status_callback, n |-> notifying[t],
                                            message |-> emitted[notifying[t]]])
                    ELSE delivered
    /\ notifying' = [notifying EXCEPT ![t] = 0]
    /\ UNCHANGED <<status_callback, emitted, sent, registrations>>
    /\ UNCHANGED <<storeVars, histVars, svcVars, clockVars, netVars, xfVars, mongoVars, labelVars, timerVars>>

\* The scheduler thread and an on-demand fetch_all emitting their messages, beside a UI
\* that registers callbacks
NextNotify ==
    \/ \E callback \in {"cb1", "cb2"} : set_status_callback(callback)
    \/ \E t \in Threads : _notify(t)
    \/ \E t \in Threads : _notify_callback(t)

SpecNotify == Init /\ [][NextNotify]_vars

---------------------------------------------------------------------------
(* The fetch client _do_request and the three adapters (src/sources).  A     *)
(* source label is the sequence of its hyphen-separated pieces, with the     *)
(* hyphens, so that splitting a label is an operation on it.                 *)

\* config.MAX_RETRIES
MAX_RETRIES == 2
\* attempts of one adapter call that may go wrong
MaxFaults == 5
\* the time one requests.get takes, in ms
GetMs == 10

Hyphen == "-"

\* f"{self.name}-{category}-{location_key}"
EnvLabel(name, category, key) == name \o <<Hyphen, category, Hyphen>> \o key
\* f"{self.name}-{indicator}"
MacroLabel(name, indicator) == name \o <<Hyphen>> \o indicator

\* OpenMeteoSource.name = "open-meteo", WorldBankSource.name = "worldbank"
OpenMeteoName == <<"open", Hyphen, "meteo">>
WorldBankName == <<"worldbank">>

\* config.LOCATIONS: key and wikipedia_url
LOCATIONS ==
    << [key |-> "ams", wikipedia_url |-> "https://en.wikipedia.org/wiki/Amsterdam"],
       [key |-> "bru", wikipedia_url |-> "https://en.wikipedia.org/wiki/Brussels"],
       [key |-> "nyc", wikipedia_url |-> "https://en.wikipedia.org/wiki/New_York_City"] >>

\* config.WB_INDICATORS.keys()
WB_INDICATORS == <<"FP.CPI.TOTL.ZG", "SL.UEM.TOTL.ZS", "NY.GDP.MKTP.KD.ZG", "EN.ATM.CO2E.PC">>

Adapters == {"open-meteo", "worldbank", "wikipedia"}

\* The requests an adapter call issues, in order: OpenMeteoSource.fetch weather then air
\* per location, WorldBankSource.fetch one per indicator, WikipediaScraper.scrape_all one
\* per location's page.
Requests(a) ==
    CASE a = "open-meteo" ->
            [i \in 1..(2 * Len(LOCATIONS)) |->
                EnvLabel(OpenMeteoName, IF i % 2 = 1 THEN "weather" ELSE "air",
                         <<LOCATIONS[(i + 1) \div 2].key>>)]
      [] a = "worldbank" ->
            [i \in 1..Len(WB_INDICATORS) |-> MacroLabel(WorldBankName, <<WB_INDICATORS[i]>>)]
      [] a = "wikipedia" ->
            [i \in 1..Len(LOCATIONS) |-> <<LOCATIONS[i].wikipedia_url>>]

\* config.WB_REGIONS.keys()
WB_REGIONS == {"NLD", "EUU", "USA", "WLD"}

\* Mutant: the World Bank API's default page size in place of per_page 5000
RequestDefaultPage(a, label) ==
    CASE a = "open-meteo" ->
            LET loc == CHOOSE r \in SeedLocations : r[1] = label[7]
            IN  [url |-> IF label[5] = "weather"
                         THEN "https://api.open-meteo.com/v1/forecast"
                         ELSE "https://air-quality-api.open-meteo.com/v1/air-quality",
                 params |-> [latitude |-> loc[3], longitude |-> loc[4],
                             hourly |-> IF label[5] = "weather"
                                        THEN "temperature_2m,wind_speed_10m,precipitation"
                                        ELSE "pm2_5,pm10,european_aqi,us_aqi",
                             timezone |-> "UTC"]]
      [] a = "worldbank" ->
            [url |-> [base |-> "https://api.worldbank.org/v2/country",
                      regions |-> <<"NLD", "EUU", "USA", "WLD">>,
                      indicator |-> label[3]],
             params |-> [format |-> "json", per_page |-> 50]]
      [] a = "wikipedia" ->
            [url |-> label[1], params |-> <<>>]

\* The url and params an adapter passes to _do_request for the request of a label, and
\* puts into the envelope: _fetch_for_location per category, _fetch_indicator (the URL
\* f"https://api.worldbank.org/v2/country/NLD;EUU;USA;WLD/indicator/{indicator}", kept
\* as its base, its region codes and its indicator), scrape (params {})
Request(a, label) ==
    CASE a = "open-meteo" ->
            LET loc == CHOOSE r \in SeedLocations : r[1] = label[7]
            IN  [url |-> IF label[5] = "weather"
                         THEN "https://api.open-meteo.com/v1/forecast"
                         ELSE "https://air-quality-api.open-meteo.com/v1/air-quality",
                 params |-> [latitude |-> loc[3], longitude |-> loc[4],
                             hourly |-> IF label[5] = "weather"
                                        THEN "temperature_2m,wind_speed_10m,precipitation"
                                        ELSE "pm2_5,pm10,european_aqi,us_aqi",
                             timezone |-> "UTC"]]
      [] a = "worldbank" ->
            [url |-> [base |-> "https://api.worldbank.org/v2/country",
                      regions |-> <<"NLD", "EUU", "USA", "WLD">>,
                      indicator |-> label[3]],
             params |-> [format |-> "json", per_page |-> 5000]]
      [] a = "wikipedia" ->
            [url |-> label[1], params |-> <<>>]

\* resp.json() of a body that is not JSON raises
NotJson == "JSONDecodeError"

\* Responses of requests.get: a 200 with a JSON body, a 200 with an HTML page, a 404
R200 == [received |-> TRUE, status_code |-> 200, text |-> "{\"hourly\": {}}", json |-> "payload"]
R200Html == [received |-> TRUE, status_code |-> 200,
             text |-> "<h1>Amsterdam</h1><p>Capital of the Netherlands</p>", json |-> NotJson]
R404 == [received |-> TRUE, status_code |-> 404, text |-> "Not Found", json |-> NotJson]
ResponseInputs == {R200, R200Html, R404}

\* str(exc) of a transport failure
ErrorInputs == {"timed out", "connection refused"}

\* requests.Response.ok: raise_for_status() raises for 400 <= status_code < 600
ResponseOk(r) == ~(400 <= r.status_code /\ r.status_code < 600)

\* the truth value of resp in "resp and ...", "... if resp else ...": None is false, and
\* requests.Response.__bool__ returns self.ok
Truthy(r) == r.received /\ ResponseOk(r)

\* time.sleep(1 + attempt), in ms
Backoff(a) == 1000 * (1 + a)

\* Mutant: start is taken anew at every attempt
RetryElapsedRestart(t, a) == GetMs + Backoff(a)

\* time.time() - start after one more failed attempt and its sleep
RetryElapsed(t, a) == t + GetMs + Backoff(a)

\* Mutant: range(config.MAX_RETRIES + 2)
AttemptsOneMore == MAX_RETRIES + 2

\* range(config.MAX_RETRIES + 1)
Attempts == MAX_RETRIES + 1

\* Optional[int]: None, or the value
Nothing == <<>>
Some(x) == <<x>>

\* RawFetchResult(...) as _fetch_for_location and _fetch_indicator build it from the
\* triple _do_request returned
RawFetchResult(label, req, r, err, duration_ms) ==
    [source |-> label,
     url |-> req.url,
     params |-> req.params,
     status_code |-> IF Truthy(r) THEN Some(r.status_code) ELSE Nothing,
     ok |-> Truthy(r) /\ ResponseOk(r),
     error |-> IF err # None THEN err
               ELSE IF Truthy(r) /\ ResponseOk(r) THEN None
               ELSE IF Truthy(r) THEN r.text ELSE None,
     duration_ms |-> duration_ms,
     payload_json |-> IF Truthy(r) /\ ResponseOk(r) THEN r.json ELSE None,
     payload_text |-> IF Truthy(r) THEN r.text ELSE None]

\* payload_json = resp.json() if resp and resp.ok else None: json() raises on a body
\* that is not JSON, and the exception leaves fetch()
JsonRaises(r) == Truthy(r) /\ ResponseOk(r) /\ r.json = NotJson

\* BeautifulSoup: text of the first h1 and of the first p, "" where there is none
ParseHtml(html) ==
    IF html = R200Html.text
    THEN [title |-> "Amsterdam", summary |-> "Capital of the Netherlands"]
    ELSE [title |-> "", summary |-> ""]

\* ScrapeResult(...) as WikipediaScraper.scrape builds it
ScrapeResult(url, r, err) ==
    LET html == IF Truthy(r) /\ ResponseOk(r) THEN r.text ELSE None
        e == IF err # None THEN err
             ELSE IF Truthy(r) /\ ResponseOk(r) THEN None
             ELSE IF Truthy(r) THEN r.text ELSE None
    IN  [url |-> url,
         ok |-> (e = None),
         error |-> e,
         html |-> html,
         parsed |-> IF html # None /\ html # "" THEN Some(ParseHtml(html)) ELSE Nothing]

\* the envelope the adapter builds for the request that just returned
Envelope(a, label, r, err, duration_ms) ==
    IF a = "wikipedia" THEN ScrapeResult(label[1], r, err)
    ELSE RawFetchResult(label, Request(a, label), r, err, duration_ms)

\* fetch() / scrape_all() of an adapter, up to its first requests.get
fetch(a) ==
    /\ phase \in {"idle", "done", "raised"}
    /\ adapter' = a
    /\ todo' = Requests(a)
    /\ results' = <<>>
    /\ faults' = 0
    /\ phase' = "get"
    /\ attempt' = 0
    /\ resp' = NoResponse
    /\ error' = None
    /\ elapsed' = 0
    /\ errors' = <<>>
    /\ requested' = <<[label |-> Requests(a)[1], sent |-> Request(a, Requests(a)[1]),
                        resp |-> NoResponse]>>
    /\ UNCHANGED <<storeVars, histVars, svcVars, clockVars, xfVars, notifyVars, mongoVars, labelVars, timerVars>>

\* requests.get raises: error = str(exc), sleep, next attempt; after the last attempt
\* the loop ends and _do_request returns resp (None), error, duration_ms
get_raises(e) ==
    /\ phase = "get" /\ attempt < Attempts
    /\ faults < MaxFaults
    /\ error' = e
    /\ errors' = Append(errors, e)
    /\ elapsed' = RetryElapsed(elapsed, attempt)
    /\ attempt' = attempt + 1
    /\ phase' = IF attempt + 1 < Attempts THEN "get" ELSE "build"
    /\ faults' = faults + 1
    /\ UNCHANGED <<adapter, todo, resp, results, requested>>
    /\ UNCHANGED <<storeVars, histVars, svcVars, clockVars, xfVars, notifyVars, mongoVars, labelVars, timerVars>>

\* requests.get returns a response, of whatever status: _do_request returns
\* resp, None, duration_ms
get_returns(r) ==
    /\ phase = "get" /\ attempt < Attempts
    /\ r # R200 => faults < MaxFaults
    /\ resp' = r
    /\ error' = None
    /\ elapsed' = elapsed + GetMs
    /\ phase' = "build"
    /\ faults' = IF r # R200 THEN faults + 1 ELSE faults
    /\ UNCHANGED <<adapter, todo, attempt, errors, results, requested>>
    /\ UNCHANGED <<storeVars, histVars, svcVars, clockVars, xfVars, notifyVars, mongoVars, labelVars, timerVars>>

\* the adapter builds the envelope of the request and goes on to the next request of its
\* enumeration, or returns its results; resp.json() raising ends the call with the exception
build ==
    /\ phase = "build"
    /\ IF adapter # "wikipedia" /\ JsonRaises(resp)
       THEN /\ phase' = "raised"
            /\ requested' = [requested EXCEPT ![Len(requested)].resp = resp]
            /\ UNCHANGED <<todo, results, attempt, resp, error, elapsed, errors>>
       ELSE /\ results' = Append(results, Envelope(adapter, Head(todo), resp, error, elapsed))
            /\ todo' = Tail(todo)
            /\ IF Tail(todo) = <<>>
               THEN /\ phase' = "done"
                    /\ requested' = [requested EXCEPT ![Len(requested)].resp = resp]
                    /\ UNCHANGED <<attempt, resp, error, elapsed, errors>>
               ELSE /\ phase' = "get"
                    /\ requested' = Append([requested EXCEPT ![Len(requested)].resp = resp],
                                           [label |-> Head(Tail(todo)),
                                            sent |-> Request(adapter, Head(Tail(todo))),
                                            resp |-> NoResponse])
                    /\ attempt' = 0
                    /\ resp' = NoResponse
                    /\ error' = None
                    /\ elapsed' = 0
                    /\ errors' = <<>>
    /\ UNCHANGED <<adapter, faults>>
    /\ UNCHANGED <<storeVars, histVars, svcVars, clockVars, xfVars, notifyVars, mongoVars, labelVars, timerVars>>

NextFetch ==
    \/ \E a \in Adapters : fetch(a)
    \/ \E e \in ErrorInputs : get_raises(e)
    \/ \E r \in ResponseInputs : get_returns(r)
    \/ build

SpecFetch == Init /\ [][NextFetch]_vars

\* "if sres.ok and sres.parsed"
WritesEnrichment(sres) == sres.ok /\ sres.parsed # Nothing

\* Variant: every location is selected, whatever its wikipedia_url
LocationKeysOfAny(table, url) == {r[1] : r \in table}

\* SELECT location_key, wikipedia_url FROM dim_location WHERE wikipedia_url=?
LocationKeysOf(table, url) == {r[1] : r \in {x \in table : x[5] = url}}

\* update_location_wiki(loc[0], title, summary) for every selected location
RECURSIVE UpdateSelected(_, _, _, _)
UpdateSelected(table, keys, title, summary) ==
    IF keys = {} THEN table
    ELSE LET k == CHOOSE x \in keys : TRUE
         IN  UpdateSelected(UpdateLocationWiki(table, k, title, summary), keys \ {k}, title, summary)

\* for sres in scrape_results: dim_location after the loop
RECURSIVE EnrichAll(_, _)
EnrichAll(table, scrape_results) ==
    IF scrape_results = <<>> THEN table
    ELSE LET sres == Head(scrape_results)
             after == IF WritesEnrichment(sres)
                      THEN UpdateSelected(table, LocationKeysOf(table, sres.url),
                                          sres.parsed[1].title, sres.parsed[1].summary)
                      ELSE table
         IN  EnrichAll(after, Tail(scrape_results))

\* fetch_wikipedia once scrape_all has returned: the loop over the scrape results, with
\* its audit writes and its updates of dim_location (each committed)
fetch_wikipedia_enrich ==
    /\ adapter = "wikipedia" /\ phase = "done"
    /\ ~LogFetchRaises(mongo_client, mongo_up)
    /\ mongo_docs' = IF mongo_client THEN mongo_docs \cup {"wikipedia"} ELSE mongo_docs
    /\ conn_loc' = EnrichAll(conn_loc, results)
    /\ disk_loc' = IF \E i \in 1..Len(results) :
                        WritesEnrichment(results[i]) /\ LocationKeysOf(conn_loc, results[i].url) # {}
                   THEN conn_loc' ELSE disk_loc
    /\ phase' = "idle"
    /\ UNCHANGED <<conn_env, disk_env, conn_macro, disk_macro, conn_run_log, disk_run_log>>
    /\ UNCHANGED <<adapter, todo, attempt, resp, error, elapsed, errors, results, requested, faults>>
    /\ UNCHANGED <<mongo_client, mongo_up, histVars, svcVars, clockVars, xfVars, notifyVars, labelVars, timerVars>>

\* The Wikipedia cycle from its scrapes to its updates
NextWiki ==
    \/ fetch("wikipedia")
    \/ \E e \in ErrorInputs : get_raises(e)
    \/ \E r \in ResponseInputs : get_returns(r)
    \/ build
    \/ fetch_wikipedia_enrich

SpecWiki == Init /\ [][NextWiki]_vars

---------------------------------------------------------------------------
(* The transforms (src/transform): envelopes in, upsert calls on the store out. *)
(* A JSON object is a function on its keys, a JSON array a sequence; None, {}   *)
(* and [] are the empty sequence, which is what "not payload_json" tests.       *)

\* the envelope fields the transforms read
RawResult(label, ok, payload_json) == [source |-> label, ok |-> ok, payload_json |-> payload_json]

NoPayload == <<>>

\* "not result.payload_json"
Falsy(payload_json) == DOMAIN payload_json = {}

\* dict.get(key, default)
Get(dict, key, default) == IF key \in DOMAIN dict THEN dict[key] ELSE default

\* [None] * n
NoneList(n) == [i \in 1..n |-> None]

HyphensOf(label) == {i \in 1..Len(label) : label[i] = Hyphen}

\* source.rsplit("-", 2): the pieces around the last two hyphens, fewer pieces if the
\* label has fewer hyphens
RSplit2(label) ==
    LET hy == HyphensOf(label)
    IN  IF hy = {} THEN <<label>>
        ELSE LET l == CHOOSE i \in hy : \A j \in hy : j <= i
                 rest == hy \ {l}
             IN  IF rest = {} THEN <<SubSeq(label, 1, l - 1), SubSeq(label, l + 1, Len(label))>>
                 ELSE LET k == CHOOSE i \in rest : \A j \in rest : j <= i
                      IN  <<SubSeq(label, 1, k - 1), SubSeq(label, k + 1, l - 1),
                            SubSeq(label, l + 1, Len(label))>>

\* source.split("-"): the pieces around every hyphen
RECURSIVE Split(_)
Split(label) ==
    LET hy == HyphensOf(label)
    IN  IF hy = {} THEN <<label>>
        ELSE LET f == CHOOSE i \in hy : \A j \in hy : i <= j
             IN  <<SubSeq(label, 1, f - 1)>> \o Split(SubSeq(label, f + 1, Len(label)))

\* the string of a piece that holds no hyphen
Str(piece) == IF piece = <<>> THEN "" ELSE piece[1]

\* d[k] = v on a dict kept as the sequence of its (key, value) pairs in insertion order
DictSet(d, k, v) ==
    IF \E i \in 1..Len(d) : d[i][1] = k
    THEN [i \in 1..Len(d) |-> IF d[i][1] = k THEN <<k, v>> ELSE d[i]]
    ELSE Append(d, <<k, v>>)

\* dict.get(k, {}) on such a dict: the value as a one-element sequence, <<>> for {}
DictGet(d, k) ==
    IF \E i \in 1..Len(d) : d[i][1] = k
    THEN <<d[CHOOSE i \in 1..Len(d) : d[i][1] = k][2]>>
    ELSE <<>>

WeatherKeys == <<"temperature_2m", "wind_speed_10m", "precipitation">>
AirKeys == <<"pm2_5", "pm10", "european_aqi", "us_aqi">>

\* {ts: {measure: hourly.get(name, [None] * len(times))[idx], ...} for idx, ts in enumerate(times)}
RECURSIVE HourlyDict(_, _, _, _)
HourlyDict(hourly, keys, idx, d) ==
    LET times == Get(hourly, "time", <<>>)
    IN  IF idx > Len(times) THEN d
        ELSE HourlyDict(hourly, keys, idx + 1,
                        DictSet(d, times[idx],
                                [j \in 1..Len(keys) |-> Get(hourly, keys[j], NoneList(Len(times)))[idx]]))

\* hourly.get(name, ...)[idx] raises IndexError when a measure array is shorter than time
HourlyRaises(hourly, keys) ==
    \E j \in 1..Len(keys) :
        keys[j] \in DOMAIN hourly /\ Len(hourly[keys[j]]) < Len(Get(hourly, "time", <<>>))

\* the first loop of transform_environment: weather_data or air_data, location_key -> dict
RECURSIVE CategoryData(_, _, _)
CategoryData(raw_results, category, data) ==
    IF raw_results = <<>> THEN data
    ELSE LET result == Head(raw_results)
             parts == RSplit2(result.source)
             keys == IF category = "weather" THEN WeatherKeys ELSE AirKeys
         IN  IF ~result.ok \/ Falsy(result.payload_json) \/ Len(parts) # 3
                    \/ parts[2] # <<category>>
             THEN CategoryData(Tail(raw_results), category, data)
             ELSE CategoryData(Tail(raw_results), category,
                               DictSet(data, parts[3],
                                       HourlyDict(Get(result.payload_json, "hourly", <<>>), keys, 1, <<>>)))

\* an envelope the first loop reads whose payload makes it raise
EnvPayloadRaises(raw_results) ==
    \E i \in 1..Len(raw_results) :
        LET result == raw_results[i]
            parts == RSplit2(result.source)
        IN  /\ result.ok /\ ~Falsy(result.payload_json) /\ Len(parts) = 3
            /\ \/ parts[2] = <<"weather">>
                    /\ HourlyRaises(Get(result.payload_json, "hourly", <<>>), WeatherKeys)
               \/ parts[2] = <<"air">>
                    /\ HourlyRaises(Get(result.payload_json, "hourly", <<>>), AirKeys)

\* Mutant: only the timestamps that both payloads hold
EnvRowsInnerJoin(key, weather, air) ==
    LET both == SelectSeq(weather, LAMBDA w : DictGet(air, w[1]) # <<>>)
    IN  [i \in 1..Len(both) |->
            <<key, both[i][1]>> \o both[i][2] \o DictGet(air, both[i][1])[1]]

\* the rows of one location: for ts, wdata in weather.items(): adata = air.get(ts, {}) ...
EnvRows(key, weather, air) ==
    [i \in 1..Len(weather) |->
        LET adata == DictGet(air, weather[i][1])
        IN  <<key, weather[i][1]>> \o weather[i][2]
               \o (IF adata = <<>> THEN NoneList(Len(AirKeys)) ELSE adata[1])]

\* the second loop: for loc in config.LOCATIONS, the rows of the upsert_env_hourly call
\* made for loc; locations without rows get no call
RECURSIVE EnvBatches(_, _, _)
EnvBatches(locs, weather_data, air_data) ==
    IF locs = <<>> THEN <<>>
    ELSE LET loc == Head(locs)
             w == DictGet(weather_data, <<loc.key>>)
             a == DictGet(air_data, <<loc.key>>)
             rows == EnvRows(loc.key, IF w = <<>> THEN <<>> ELSE w[1], IF a = <<>> THEN <<>> ELSE a[1])
         IN  (IF rows = <<>> THEN <<>> ELSE <<rows>>)
                \o EnvBatches(Tail(locs), weather_data, air_data)

\* upsert_env_hourly called with each batch in turn, each call committing; the first
\* call that raises ends the sequence
RECURSIVE ApplyEnvBatches(_, _, _)
ApplyEnvBatches(conn, commits, batches) ==
    IF batches = <<>> THEN [conn |-> conn, commits |-> commits, raised |-> FALSE]
    ELSE LET res == ExecuteManyEnv(conn, Head(batches))
         IN  IF res.raised THEN [conn |-> res.table, commits |-> commits, raised |-> TRUE]
             ELSE ApplyEnvBatches(res.table, Append(commits, res.table), Tail(batches))

\* the timestamps of the payloads in the order of their text, which is ORDER BY ts_utc
TsOrder == <<Ts0, Ts1>>
TsRank(ts) == CHOOSE i \in 1..Len(TsOrder) : TsOrder[i] = ts

\* Mutant: ORDER BY ts_utc ASC LIMIT 1
latest_env_kpisAscending(table, location_key) ==
    LET rows == {r \in table : r[1] = location_key}
    IN  IF rows = {} THEN Nothing
        ELSE Some(Tail(CHOOSE r \in rows : \A q \in rows : TsRank(r[2]) <= TsRank(q[2])))

\* SELECT ts_utc, <the 7 measures> FROM fact_env_hourly WHERE location_key=?
\* ORDER BY ts_utc DESC LIMIT 1; fetchone()
latest_env_kpis(table, location_key) ==
    LET rows == {r \in table : r[1] = location_key}
    IN  IF rows = {} THEN Nothing
        ELSE Some(Tail(CHOOSE r \in rows : \A q \in rows : TsRank(q[2]) <= TsRank(r[2])))

\* transform_environment(raw_results, sqlite_store)
transform_environment(raw_results) ==
    LET batches == EnvBatches(LOCATIONS, CategoryData(raw_results, "weather", <<>>),
                              CategoryData(raw_results, "air", <<>>))
        res == ApplyEnvBatches(conn_env, <<>>, batches)
    IN  IF EnvPayloadRaises(raw_results)
        THEN /\ xf_call' = [op |-> "transform_environment", raw_results |-> raw_results,
                            upserts |-> <<>>, raised |-> TRUE]
             /\ UNCHANGED <<storeVars, histVars, svcVars, clockVars, netVars, notifyVars, mongoVars, labelVars, timerVars>>
        ELSE /\ conn_env' = res.conn
             /\ IF res.commits # <<>>
                THEN /\ disk_env' = res.commits[Len(res.commits)]
                     /\ disk_macro' = conn_macro
                     /\ disk_loc' = conn_loc
                     /\ disk_run_log' = conn_run_log
                ELSE UNCHANGED <<disk_env, disk_macro, disk_loc, disk_run_log>>
             /\ xf_call' = [op |-> "transform_environment", raw_results |-> raw_results,
                            upserts |-> batches, raised |-> res.raised]
             /\ UNCHANGED <<conn_macro, conn_loc, conn_run_log, histVars, svcVars, clockVars, netVars, notifyVars, mongoVars, labelVars, timerVars>>

\* a JSON array where the year belongs
YearList == "[2023]"

\* int(year)
PyInt(year) ==
    CASE year = "2023" -> [raises |-> "no", value |-> 2023]
      [] year = "2022" -> [raises |-> "no", value |-> 2022]
      [] year = YearList -> [raises |-> "TypeError", value |-> 0]
      [] OTHER -> [raises |-> "ValueError", value |-> 0]

\* the truth value of entry.get(...): None and "" are false
PyFalsy(x) == x = None \/ x = ""

\* A JSON null where the list of records belongs, and a JSON string where a record
\* belongs: each kept as a record with the one field that names it, so that it can stand
\* beside the records
JsonNullList == <<[json_null |-> TRUE]>>
JsonStringEntry == [json_string |-> "n/a"]

\* "for entry in data_entries" on None raises TypeError
IterRaises(data_entries) ==
    data_entries # <<>> /\ "json_null" \in DOMAIN Head(data_entries)

\* entry.get(...) on a value that is no dict raises AttributeError
EntryGetRaises(entry) == "json_string" \in DOMAIN entry

\* for entry in data_entries: the rows appended; entry.get on a value that is no dict,
\* and int(year) raising anything but ValueError, leave the loop and the transform
RECURSIVE MacroEntryRows(_, _, _)
MacroEntryRows(data_entries, indicator, rows) ==
    IF data_entries = <<>> THEN [rows |-> rows, raised |-> FALSE]
    ELSE IF IterRaises(data_entries) \/ EntryGetRaises(Head(data_entries))
    THEN [rows |-> rows, raised |-> TRUE]
    ELSE LET entry == Head(data_entries)
             region == entry.countryiso3code
             year == entry.date
         IN  IF PyFalsy(region) \/ PyFalsy(year)
             THEN MacroEntryRows(Tail(data_entries), indicator, rows)
             ELSE IF PyInt(year).raises = "TypeError" THEN [rows |-> rows, raised |-> TRUE]
             ELSE IF PyInt(year).raises = "ValueError"
             THEN MacroEntryRows(Tail(data_entries), indicator, rows)
             ELSE MacroEntryRows(Tail(data_entries), indicator,
                                 Append(rows, <<region, indicator, PyInt(year).value, entry.value>>))

\* for result in raw_results: the rows of all envelopes
RECURSIVE MacroRows(_, _)
MacroRows(raw_results, rows) ==
    IF raw_results = <<>> THEN [rows |-> rows, raised |-> FALSE]
    ELSE LET result == Head(raw_results)
             parts == Split(result.source)
         IN  IF ~result.ok \/ Falsy(result.payload_json) \/ Len(parts) < 2
                    \/ Len(result.payload_json) < 2
             THEN MacroRows(Tail(raw_results), rows)
             ELSE LET r == MacroEntryRows(result.payload_json[2], Str(parts[2]), rows)
                  IN  IF r.raised THEN r ELSE MacroRows(Tail(raw_results), r.rows)

\* transform_macro(raw_results, sqlite_store)
transform_macro(raw_results) ==
    LET built == MacroRows(raw_results, <<>>)
        res == ExecuteManyMacro(conn_macro, built.rows)
    IN  IF built.raised
        THEN /\ xf_call' = [op |-> "transform_macro", raw_results |-> raw_results,
                            upserts |-> <<>>, raised |-> TRUE]
             /\ UNCHANGED <<storeVars, histVars, svcVars, clockVars, netVars, notifyVars, mongoVars, labelVars, timerVars>>
        ELSE IF built.rows = <<>>
        THEN /\ xf_call' = [op |-> "transform_macro", raw_results |-> raw_results,
                            upserts |-> <<>>, raised |-> FALSE]
             /\ UNCHANGED <<storeVars, histVars, svcVars, clockVars, netVars, notifyVars, mongoVars, labelVars, timerVars>>
        ELSE /\ conn_macro' = res.table
             /\ IF res.raised
                THEN UNCHANGED <<disk_env, disk_macro, disk_loc, disk_run_log>>
                ELSE /\ disk_macro' = res.table
                     /\ disk_env' = conn_env
                     /\ disk_loc' = conn_loc
                     /\ disk_run_log' = conn_run_log
             /\ xf_call' = [op |-> "transform_macro", raw_results |-> raw_results,
                            upserts |-> <<built.rows>>, raised |-> res.raised]
             /\ UNCHANGED <<conn_env, conn_loc, conn_run_log, histVars, svcVars, clockVars, netVars, notifyVars, mongoVars, labelVars, timerVars>>

\* Payloads of the Open-Meteo endpoints
WeatherPayload(times, temperature_2m, wind_speed_10m, precipitation) ==
    [hourly |-> [time |-> times, temperature_2m |-> temperature_2m,
                 wind_speed_10m |-> wind_speed_10m, precipitation |-> precipitation]]
AirPayload(times, pm2_5, pm10, european_aqi, us_aqi) ==
    [hourly |-> [time |-> times, pm2_5 |-> pm2_5, pm10 |-> pm10,
                 european_aqi |-> european_aqi, us_aqi |-> us_aqi]]

WeatherLabel(key) == EnvLabel(OpenMeteoName, "weather", <<key>>)
AirLabel(key) == EnvLabel(OpenMeteoName, "air", <<key>>)

\* the envelopes of test_environment_transform_handles_hyphenated_sources
WeatherAms == RawResult(WeatherLabel("ams"), TRUE, WeatherPayload(<<Ts0>>, <<"6.5">>, <<"12.0">>, <<"0.1">>))
AirAms == RawResult(AirLabel("ams"), TRUE, AirPayload(<<Ts0>>, <<"3.2">>, <<"4.1">>, <<"51">>, <<"48">>))
\* two hours of weather, the second without air quality; a later reading of the first hour
WeatherAms2 == RawResult(WeatherLabel("ams"), TRUE,
                         WeatherPayload(<<Ts0, Ts1>>, <<"6.5", "7.0">>, <<"12.0", "13.0">>, <<"0.1", "0.0">>))
WeatherAmsLater == RawResult(WeatherLabel("ams"), TRUE, WeatherPayload(<<Ts0>>, <<"8.0">>, <<"9.0">>, <<"0.4">>))
\* two hours of air quality
AirAms2 == RawResult(AirLabel("ams"), TRUE,
                     AirPayload(<<Ts0, Ts1>>, <<"3.2", "3.5">>, <<"4.1", "4.6">>, <<"51", "52">>, <<"48", "49">>))
\* Brussels: weather without the precipitation array, and the air-quality request failed
WeatherBru == RawResult(WeatherLabel("bru"), TRUE,
                        [hourly |-> [time |-> <<Ts1>>, temperature_2m |-> <<"6.0">>,
                                     wind_speed_10m |-> <<"11.0">>]])
AirBruFailed == RawResult(AirLabel("bru"), FALSE, NoPayload)
\* New York: the weather request failed, air quality arrived
WeatherNycFailed == RawResult(WeatherLabel("nyc"), FALSE, NoPayload)
AirNyc == RawResult(AirLabel("nyc"), TRUE, AirPayload(<<Ts0>>, <<"9.9">>, <<"8.8">>, <<"70">>, <<"71">>))

\* The envelope lists offered to transform_environment
EnvResultInputs ==
    { <<WeatherAms, AirAms>>,
      <<WeatherAms2, AirAms, WeatherBru, AirBruFailed>>,
      <<WeatherAms2, AirAms2, WeatherNycFailed, AirNyc>>,
      <<WeatherAms, AirAms2>>,
      <<WeatherAmsLater, WeatherBru, AirBruFailed>>,
      <<WeatherNycFailed, AirBruFailed>> }

\* a record of the World Bank data list
MacroEntry(countryiso3code, date, value) ==
    [countryiso3code |-> countryiso3code, date |-> date, value |-> value]

MacroMeta == [page |-> 1, pages |-> 1, per_page |-> 5000]

\* the envelope of test_macro_transform_stores_all_regions
MacroFourRegions ==
    RawResult(MacroLabel(WorldBankName, <<"FP.CPI.TOTL.ZG">>), TRUE,
              <<MacroMeta, <<MacroEntry("NLD", "2023", "4.5"), MacroEntry("EUU", "2023", "5.5"),
                             MacroEntry("USA", "2023", "3.2"), MacroEntry("WLD", "2023", "2.1")>>>>)
\* records without region, without year and with a year that is not a number, among good ones
MacroSomeSkipped ==
    RawResult(MacroLabel(WorldBankName, <<"FP.CPI.TOTL.ZG">>), TRUE,
              <<MacroMeta, <<MacroEntry("NLD", "2023", "4.2"), MacroEntry("EUU", "n/a", "5.5"),
                             MacroEntry(None, "2023", "1.0"), MacroEntry("USA", None, "3.0"),
                             MacroEntry("USA", "2022", "3.2")>>>>)
MacroUnemployment ==
    RawResult(MacroLabel(WorldBankName, <<"SL.UEM.TOTL.ZS">>), TRUE,
              <<MacroMeta, <<MacroEntry("NLD", "2023", "3.6")>>>>)
\* a record whose year is a JSON array, between good ones
MacroYearList ==
    RawResult(MacroLabel(WorldBankName, <<"FP.CPI.TOTL.ZG">>), TRUE,
              <<MacroMeta, <<MacroEntry("NLD", "2023", "4.2"), MacroEntry("EUU", YearList, "5.5"),
                             MacroEntry("USA", "2023", "3.2")>>>>)
MacroFailed == RawResult(MacroLabel(WorldBankName, <<"EN.ATM.CO2E.PC">>), FALSE, NoPayload)
MacroEmptyPage == RawResult(MacroLabel(WorldBankName, <<"NY.GDP.MKTP.KD.ZG">>), TRUE, <<MacroMeta, <<>>>>)

\* The envelope lists offered to transform_macro
MacroResultInputs ==
    { <<MacroFourRegions>>,
      <<MacroSomeSkipped, MacroUnemployment>>,
      <<MacroUnemployment, MacroYearList>>,
      <<MacroFailed, MacroEmptyPage>> }

NextTransform ==
    \/ \E raw_results \in EnvResultInputs : transform_environment(raw_results)
    \/ \E raw_results \in MacroResultInputs : transform_macro(raw_results)

SpecTransform == Init /\ [][NextTransform]_vars

\* Envelopes with malformed payloads: an air-quality payload whose pm2_5 array is shorter
\* than its time array; a macro payload with null for its list of records; one with a
\* string among its records
AirAmsShort ==
    RawResult(AirLabel("ams"), TRUE,
              AirPayload(<<Ts0, Ts1>>, <<"3.2">>, <<"4.1", "4.6">>, <<"51", "52">>, <<"48", "49">>))
MacroNullList ==
    RawResult(MacroLabel(WorldBankName, <<"NY.GDP.MKTP.KD.ZG">>), TRUE, <<MacroMeta, JsonNullList>>)
MacroStringEntry ==
    RawResult(MacroLabel(WorldBankName, <<"FP.CPI.TOTL.ZG">>), TRUE,
              <<MacroMeta, <<MacroEntry("NLD", "2023", "4.2"), JsonStringEntry,
                             MacroEntry("USA", "2023", "3.2")>>>>)

\* The transforms offered malformed payloads beside the well-formed ones
NextMalformed ==
    \/ \E raw_results \in EnvResultInputs \cup {<<WeatherAms2, AirAmsShort, WeatherBru>>} :
            transform_environment(raw_results)
    \/ \E raw_results \in MacroResultInputs
                           \cup {<<MacroUnemployment, MacroNullList>>, <<MacroStringEntry>>} :
            transform_macro(raw_results)

SpecMalformed == Init /\ [][NextMalformed]_vars

---------------------------------------------------------------------------
(* Source labels, from the adapter that builds one to the transform that     *)
(* splits it, for the location keys and indicator codes a configuration may  *)
(* hold: config.LOCATIONS and config.WB_INDICATORS take any string.          *)

\* the hyphen-free pieces keys and codes are made of
KeyPieces == {"ams", "nyc", "new", "york"}
CodePieces == {"NY.GDP.MKTP.KD.ZG", "EN.ATM.CO2E.PC", "EG", "USE"}
\* pieces of a key or code at most
MaxKeyParts == 3

\* the strings of n pieces joined by hyphens
RECURSIVE Joined(_, _)
Joined(pieces, n) ==
    IF n = 1 THEN {<<x>> : x \in pieces}
    ELSE {k \o <<Hyphen, x>> : k \in Joined(pieces, n - 1), x \in pieces}

KeyInputs == UNION {Joined(KeyPieces, n) : n \in 1..MaxKeyParts}
CodeInputs == UNION {Joined(CodePieces, n) : n \in 1..MaxKeyParts}

\* OpenMeteoSource._fetch_for_location labels an envelope; transform_environment splits
\* the label: source_parts = source.rsplit("-", 2), skipped unless 3 parts,
\* _, category, location_key = source_parts
label_environment(category, key) ==
    /\ LET label == EnvLabel(OpenMeteoName, category, key)
           source_parts == RSplit2(label)
       IN  roundtrip' = [adapter |-> "open-meteo", category |-> <<category>>, key |-> key,
                         label |-> label,
                         skipped |-> Len(source_parts) # 3,
                         got_category |-> IF Len(source_parts) = 3 THEN source_parts[2] ELSE <<>>,
                         got_key |-> IF Len(source_parts) = 3 THEN source_parts[3] ELSE <<>>]
    /\ UNCHANGED <<storeVars, histVars, svcVars, clockVars, netVars, xfVars, notifyVars, mongoVars,
                   timerVars>>

\* WorldBankSource._fetch_indicator labels an envelope; transform_macro splits the label:
\* parts = source.split("-"), skipped if fewer than 2 parts, indicator = parts[1]
label_macro(indicator) ==
    /\ LET label == MacroLabel(WorldBankName, indicator)
           parts == Split(label)
       IN  roundtrip' = [adapter |-> "worldbank", category |-> <<>>, key |-> indicator,
                         label |-> label,
                         skipped |-> Len(parts) < 2,
                         got_category |-> <<>>,
                         got_key |-> IF Len(parts) < 2 THEN <<>> ELSE parts[2]]
    /\ UNCHANGED <<storeVars, histVars, svcVars, clockVars, netVars, xfVars, notifyVars, mongoVars,
                   timerVars>>

NextLabel ==
    \/ \E category \in {"weather", "air"}, key \in KeyInputs : label_environment(category, key)
    \/ \E indicator \in CodeInputs : label_macro(indicator)

SpecLabel == Init /\ [][NextLabel]_vars

---------------------------------------------------------------------------
(* Claims about the storage layer, checked under SpecStore *)

Upserts == {"upsert_env_hourly", "upsert_macro"}

\* C1: applying upsert_env_hourly (respectively upsert_macro) with the same batch a second
\* time leaves the fact tables exactly as the first application left them: same keys, same
\* measures for every key, as the connection sees them and as committed.
C1_UpsertIdempotent ==
    [][(last_call'.op \in Upserts /\ last_call'.repeat)
          => /\ conn_env' = conn_env /\ disk_env' = disk_env
             /\ conn_macro' = conn_macro /\ disk_macro' = disk_macro]_vars

\* C1 witness: a batch that updated stored rows was applied a second time, and is stored
C1_Witness ==
    /\ last_call.op \in Upserts /\ last_call.repeat /\ last_call.conflict /\ ~last_call.raised
    /\ last_call.rows \in {<<EnvA2, EnvA1>>, <<MacroN2, MacroN1>>}
    /\ (EnvA1 \in disk_env \/ MacroN1 \in disk_macro)

\* C2: after any sequence of upsert batches, the stored measures of every key are exactly
\* the full measure set of the row most recently applied for the key, nulls included;
\* nothing of an earlier row survives.  A batch that was applied in full is committed.
C2_LastWriteWins ==
    /\ \A k \in DOMAIN applied_env :
         {r \in conn_env : EnvKey(r) = k} =
             IF applied_env[k] = NoRow THEN {} ELSE {k \o applied_env[k]}
    /\ \A k \in DOMAIN applied_macro :
         {r \in conn_macro : MacroKey(r) = k} =
             IF applied_macro[k] = NoRow THEN {} ELSE {k \o applied_macro[k]}
    /\ (last_call.op \in Upserts /\ ~last_call.raised)
         => (disk_env = conn_env /\ disk_macro = conn_macro)

\* C2 witness: a row with unknown measures has replaced a fully measured row of its key
C2_Witness ==
    /\ last_call.op = "upsert_env_hourly" /\ last_call.rows = <<EnvA2>>
    /\ last_call.conflict /\ ~last_call.repeat
    /\ EnvA2 \in disk_env

RowsWithKey(table, Key(_), k) == {r \in table : Key(r) = k}

\* C3: every fact table holds at most one row per composite key, in the connection's view
\* and as committed, whatever batches were applied, also batches naming a key twice.
C3_UniqueKeys ==
    /\ \A t \in {conn_env, disk_env} : \A r \in t : Cardinality(RowsWithKey(t, EnvKey, EnvKey(r))) = 1
    /\ \A t \in {conn_macro, disk_macro} : \A r \in t : Cardinality(RowsWithKey(t, MacroKey, MacroKey(r))) = 1

\* C3 witness: a batch naming one key twice was applied to a table that held the key
C3_Witness ==
    /\ last_call.op = "upsert_macro" /\ last_call.rows = <<MacroN2, MacroN1>>
    /\ last_call.conflict
    /\ Cardinality(RowsWithKey(disk_macro, MacroKey, MacroKey(MacroN1))) = 1
    /\ Cardinality(disk_macro) > 1

\* C4: a batch that fails part-way leaves none of its rows behind: the call that raised
\* changes nothing the connection sees, and the commit of a later run-log write makes no
\* fact row durable.
C4_FailedBatchLeavesNothing ==
    [][/\ (last_call'.op \in Upserts /\ last_call'.raised)
            => (conn_env' = conn_env /\ conn_macro' = conn_macro)
       /\ (last_call'.op = "log_run")
            => (disk_env' = disk_env /\ disk_macro' = disk_macro)]_vars

---------------------------------------------------------------------------
(* Claims about the orchestration layer, checked under Spec *)

\* the thread has executed the statement of a storage call and not yet committed it
InWrite(t) == pc[t] \in {"commit", "fetch_all_commit"}

\* C5: writes of the scheduler thread and of an on-demand fetch_all are serialized at
\* the storage boundary: no thread starts a write between the statement and the commit
\* of another thread's write.
C5_WritesSerialized ==
    \A t1 \in Threads, t2 \in Threads : (InWrite(t1) /\ InWrite(t2)) => t1 = t2

\* C6: a cycle that raises inside the scheduler loop is caught at the loop boundary: the
\* scheduler thread stays alive (and goes on to the other sources due in the tick).
C6_SchedulerSurvivesCycleFailure ==
    (caller["sched"] = "scheduler" /\ exc["sched"] # None) => IsAlive("sched")

\* fetch_all is past its cycles: handling their failure, committing its record, or returned
FetchAllPastCycles(t) ==
    caller[t] = "fetch_all" /\ pc[t] \in {"fetch_all_except", "fetch_all_commit", "idle"}

\* C7: in fetch_all, when one source's cycle fails, the cycles of the remaining sources
\* still run: once fetch_all is past its cycles, all three were invoked.
C7_FetchAllRunsRemainingCycles ==
    \A t \in Threads : FetchAllPastCycles(t) => ran[t] = Sources

FetchAllReturned(t) == caller[t] = "fetch_all" /\ pc[t] = "idle"

LastOf(log) == log[Len(log)]

\* C8: fetch_all returns true, with a Run Record of ok=1, only if all three cycles ran
\* without failure; if a cycle failed it returns false and its Run Record has ok=0 and
\* carries the message of the failure.
C8_FetchAllReportsOutcome ==
    \A t \in Threads : FetchAllReturned(t) =>
        /\ Len(disk_run_log) > 0
        /\ ret[t] \in {"True", "False"}
        /\ ret[t] = "True" => (ran[t] = Sources /\ exc[t] = None /\ LastOf(disk_run_log)[3] = 1)
        /\ exc[t] # None => /\ ret[t] = "False"
                            /\ LastOf(disk_run_log)[3] = 0
                            /\ LastOf(disk_run_log)[4] = exc[t]

\* C8 witness: fetch_all has returned after a cycle that stored rows and then failed
C8_Witness ==
    /\ FetchAllReturned("od") /\ exc["od"] # None /\ ret["od"] = "False"
    /\ EnvA1 \in disk_env
    /\ LastOf(disk_run_log) = <<"t0", "t1", 0, AttributeErrorMsg>>

\* C9: exactly one Source Run Record is written per invocation of a source cycle,
\* whether it succeeded or failed.
C9_OneSourceRunRecordPerCycle == Len(source_runs) = cycles_ended

\* fetch_all is in flight and has not yet inserted its Run Record
FetchAllBeforeInsert(t) == caller[t] = "fetch_all" /\ pc[t] \notin {"fetch_all_commit", "idle"}

\* C10: every invocation of fetch_all appends exactly one Run Record: the run log holds
\* one record per invocation that has reached its log_run, and each is committed when
\* fetch_all returns.
C10_OneRunRecordPerFetchAll ==
    /\ Len(conn_run_log) = fa_calls - Cardinality({t \in Threads : FetchAllBeforeInsert(t)})
    /\ (\A t \in Threads : pc[t] # "fetch_all_commit") => disk_run_log = conn_run_log

\* C10 witness: two invocations of fetch_all have returned, two records are committed
C10_Witness ==
    /\ fa_calls = 2 /\ FetchAllReturned("od")
    /\ Len(disk_run_log) = 2

---------------------------------------------------------------------------
(* Claims about the fetch client and the adapters, checked under SpecFetch *)

\* requests.get calls made so far for the request in hand
Gets == Len(errors) + (IF resp.received THEN 1 ELSE 0)

Is2xx(code) == 200 <= code /\ code < 300

\* C11, as stated: _do_request makes at most MAX_RETRIES + 1 GET attempts, makes no
\* attempt after one that yielded a response of whatever status, and makes exactly
\* MAX_RETRIES + 1 attempts only when every one of them failed at transport level.
C11_AttemptsBoundedAllFailed ==
    /\ Gets <= MAX_RETRIES + 1
    /\ phase = "get" => ~resp.received
    /\ Gets = MAX_RETRIES + 1 => ~resp.received

\* C11, amended: _do_request makes at most MAX_RETRIES + 1 GET attempts and makes no
\* attempt after one that yielded a response of whatever status; it returns without a
\* response only after exactly MAX_RETRIES + 1 failed attempts, and the attempt numbered
\* MAX_RETRIES + 1 is made only when every attempt before it failed at transport level
\* (that last attempt may itself yield the response).
C11_AttemptsBounded ==
    /\ Gets <= MAX_RETRIES + 1
    /\ phase = "get" => ~resp.received
    /\ (phase = "build" /\ ~resp.received) => Len(errors) = MAX_RETRIES + 1
    /\ resp.received => (phase # "get" /\ Gets = Len(errors) + 1 /\ Len(errors) <= MAX_RETRIES)

\* C11 witness: two attempts failed, the third yielded a 404, and _do_request returned it
C11_Witness ==
    /\ phase = "build" /\ resp = R404
    /\ Len(errors) = MAX_RETRIES /\ attempt = MAX_RETRIES

\* C12: when every attempt of a request failed at transport level the caller gets one
\* failure result for the request: no response, ok = false, the error text of the last
\* attempt, a duration covering all attempts and their back-off sleeps; and the adapter
\* holds one envelope per request it has completed, not one per attempt.
C12_OneFailureResult ==
    /\ (phase = "build" /\ ~resp.received) =>
          LET env == Envelope(adapter, Head(todo), resp, error, elapsed)
          IN  /\ error = errors[Len(errors)]
              /\ elapsed = (MAX_RETRIES + 1) * GetMs + 1000 + 2000 + 3000
              /\ env.ok = FALSE
              /\ env.error = errors[Len(errors)]
              /\ adapter # "wikipedia" =>
                    /\ env.status_code = Nothing
                    /\ env.payload_json = None
                    /\ env.duration_ms = elapsed
    /\ Len(results) = Len(requested) - (IF phase \in {"get", "build", "raised"} THEN 1 ELSE 0)

\* C12 witness: the macro adapter holds the one envelope of a request whose attempts
\* failed with different errors, and has gone on to the next indicator
C12_Witness ==
    /\ adapter = "worldbank" /\ phase = "get" /\ Len(results) = 1
    /\ ~requested[1].resp.received
    /\ results[1].ok = FALSE
    /\ results[1].error = "connection refused"
    /\ results[1].duration_ms = 6030

\* C13: every envelope an adapter builds has ok = true if and only if a response was
\* received and its status is 2xx.
C13_OkIffSuccessfulResponse ==
    \A i \in 1..Len(results) :
        results[i].ok <=> (requested[i].resp.received /\ Is2xx(requested[i].resp.status_code))

\* C14: the fetch envelope of a received non-2xx response has ok = false, the
\* response's status code and the response body as its error text.
C14_StatusCodePreserved ==
    \A i \in 1..Len(results) :
        (adapter # "wikipedia" /\ requested[i].resp.received
                /\ ~Is2xx(requested[i].resp.status_code)) =>
            /\ results[i].ok = FALSE
            /\ results[i].status_code = Some(requested[i].resp.status_code)
            /\ results[i].error = requested[i].resp.text

\* C15: an adapter call always completes its enumeration: it never ends with an
\* exception, and when it returns it holds one envelope per configured request, in
\* order, whatever happened to the individual requests.
C15_FullEnumeration ==
    /\ phase # "raised"
    /\ phase = "done" =>
          /\ Len(results) = Len(Requests(adapter))
          /\ \A i \in 1..Len(requested) : requested[i].label = Requests(adapter)[i]

---------------------------------------------------------------------------
(* Claims about the transforms, checked under SpecTransform *)

Range(seq) == {seq[i] : i \in 1..Len(seq)}

\* the successful envelope carrying the label in a list of envelopes (the last, if
\* several): <<>> if there is none
EnvelopeOf(raw_results, label) ==
    LET idx == {i \in 1..Len(raw_results) : raw_results[i].source = label /\ raw_results[i].ok}
    IN  IF idx = {} THEN <<>> ELSE <<raw_results[CHOOSE i \in idx : \A j \in idx : j <= i]>>

TimesOf(envelope) == IF envelope = <<>> THEN <<>> ELSE envelope[1].payload_json.hourly.time

\* the value the payload of the envelope gives for the measure at the timestamp
MeasureAt(envelope, name, ts) ==
    LET hourly == envelope[1].payload_json.hourly
        idx == {i \in 1..Len(hourly.time) : hourly.time[i] = ts}
    IN  IF name \in DOMAIN hourly THEN hourly[name][CHOOSE i \in idx : \A j \in idx : j <= i]
        ELSE None

WeatherAt(envelope, ts) ==
    <<MeasureAt(envelope, "temperature_2m", ts), MeasureAt(envelope, "wind_speed_10m", ts),
      MeasureAt(envelope, "precipitation", ts)>>

AirAt(envelope, ts) ==
    <<MeasureAt(envelope, "pm2_5", ts), MeasureAt(envelope, "pm10", ts),
      MeasureAt(envelope, "european_aqi", ts), MeasureAt(envelope, "us_aqi", ts)>>

LocationKeys == {LOCATIONS[i].key : i \in 1..Len(LOCATIONS)}

IndicatorOf(label) ==
    CHOOSE c \in Range(WB_INDICATORS) : MacroLabel(WorldBankName, <<c>>) = label

\* a record with a region and a year that is the text of an integer
WellFormed(entry) ==
    /\ entry.countryiso3code \notin {None, ""}
    /\ entry.date \in {"2022", "2023"}

YearOf(entry) == IF entry.date = "2023" THEN 2023 ELSE 2022

\* the records of the successful envelopes of a list, each with its envelope's indicator
RecordsOf(raw_results) ==
    UNION { {<<IndicatorOf(raw_results[i].source), raw_results[i].payload_json[2][j]>> :
                j \in 1..Len(raw_results[i].payload_json[2])} :
            i \in {k \in 1..Len(raw_results) : raw_results[k].ok} }

\* C18: after transform_macro, for every successful envelope [metadata, records] and
\* every record of it that has a region and an integer-coercible year, exactly one row
\* (region, indicator, year) is stored, and committed, with the record's value; the
\* four region records of one indicator and year give four distinct region rows.
C18_OneRowPerRecord ==
    xf_call.op = "transform_macro" =>
        /\ \A rec \in RecordsOf(xf_call.raw_results) :
              WellFormed(rec[2]) =>
                 LET row == <<rec[2].countryiso3code, rec[1], YearOf(rec[2]), rec[2].value>>
                 IN  /\ {r \in conn_macro : MacroKey(r) = MacroKey(row)} = {row}
                     /\ {r \in disk_macro : MacroKey(r) = MacroKey(row)} = {row}
        /\ xf_call.raw_results = <<MacroFourRegions>> =>
              Cardinality({r \in disk_macro : r[2] = "FP.CPI.TOTL.ZG" /\ r[3] = 2023}) = 4

\* C19: transform_macro skips a record whose year is not coercible to an integer or
\* whose region or year is absent: the call does not fail, it upserts no row for such a
\* record, and every well-formed record of the batch, of the same envelope and of the
\* others, is upserted.
C19_MalformedRecordSkipped ==
    xf_call.op = "transform_macro" =>
        LET records == RecordsOf(xf_call.raw_results)
            upserted == UNION {Range(xf_call.upserts[i]) : i \in 1..Len(xf_call.upserts)}
        IN  /\ ~xf_call.raised
            /\ \A rec \in records :
                  WellFormed(rec[2]) =>
                     <<rec[2].countryiso3code, rec[1], YearOf(rec[2]), rec[2].value>> \in upserted
            /\ \A row \in upserted :
                  \E rec \in records :
                     /\ WellFormed(rec[2])
                     /\ row = <<rec[2].countryiso3code, rec[1], YearOf(rec[2]), rec[2].value>>

---------------------------------------------------------------------------
(* Claims about the scheduler's timing, checked under SpecSched *)

\* C20: once 3 ticks have passed since the scheduler was started, and nobody has asked
\* it to stop, the scheduler has started at least 3 environmental cycles (one per tick,
\* the environmental interval being 1 tick) and no macro cycle (the macro interval
\* being 1000 ticks).
C20_ThreeEnvironmentCyclesNoMacro ==
    (starts > 0 /\ ~stop_event /\ now - started_at >= 3) =>
        /\ sched_fired["environment"] >= 3
        /\ sched_fired["macro"] = 0

\* the scheduler thread's last cycle ended with an exception
SchedulerCycleFailed ==
    caller["sched"] = "scheduler" /\ cycle["sched"] = "none" /\ exc["sched"] # None

\* C21: after a cycle run by the scheduler has failed, the scheduler keeps running and
\* the source stays on the schedule, its next-due time moved past the time of the failed
\* cycle; and the source is not retried at once: the loop has triggered at most one
\* environment cycle per tick passed since it started, and one at its start.
C21_FailedSourceRescheduled ==
    /\ SchedulerCycleFailed =>
          /\ IsAlive("sched")
          /\ next_due["environment"] > started_at
    /\ sched_fired["environment"] <= 1 + (now - started_at)

---------------------------------------------------------------------------
(* Claims about starting and stopping the scheduler *)

\* C22: a call of start_scheduler made while the scheduler thread is alive starts no
\* thread and leaves the thread where it is, and leaves the stop flag and the next-due
\* time of every source as they were.
C22_StartWhileAliveIsNoOp ==
    [][(start_calls' # start_calls /\ IsAlive("sched")) =>
          /\ starts' = starts
          /\ pc' = pc
          /\ stop_event' = stop_event
          /\ next_due' = next_due
          /\ sched_fired' = sched_fired]_vars

\* C22 witness: stop was requested and start_scheduler was then called while the thread
\* was still inside its cycle: one thread started by two calls, the stop flag still set
C22_Witness ==
    /\ start_calls = 2 /\ starts = 1
    /\ stop_event
    /\ pc["sched"] = "commit"

\* C23: while the stop flag stays set (stop_scheduler has returned and the scheduler
\* has not been started again) the scheduler loop triggers no cycle.
C23_NoCycleStartsAfterStop ==
    [][(stop_event /\ stop_event') => sched_fired' = sched_fired]_vars

---------------------------------------------------------------------------
(* Claims about the audit store, checked under SpecAudit *)

\* C25: a cycle run while the audit store cannot be reached goes on as a cycle run with
\* the audit store at hand does: when the thread leaves the fetch step it has the storage
\* calls of its transform before it, whatever the state of the audit store, so the same
\* fact rows and location enrichment are stored.
C25_AuditStoreAbsenceChangesNothing ==
    [][\A t \in Threads :
          (pc[t] = "fetch" /\ pc'[t] # "fetch" /\ ~mongo_up) =>
              /\ pc'[t] \in {"execute", "log_source_run"}
              /\ calls'[t] \in CycleCallInputs(cycle[t])
              /\ exc'[t] = None]_vars

---------------------------------------------------------------------------
(* Claims about status messages, checked under SpecNotify *)

\* C24: every message is passed to a callback at most once, and the callbacks receive
\* the messages in the order in which they were emitted (the order of their logger.info),
\* also when two threads emit.
C24_DeliveredOnceInEmissionOrder ==
    \A i \in DOMAIN delivered, j \in DOMAIN delivered :
        i < j => delivered[i].n < delivered[j].n

---------------------------------------------------------------------------
(* Claims about the dimensions and the run log *)

\* the columns of a location that are seeded and never written again
SeededColumns(r) == SubSeq(r, 1, 5)

\* the thread's step is the statement of update_location_wiki for the location
IsWikiUpdateOf(t, location_key) ==
    /\ pc[t] = "execute" /\ pc'[t] = "commit"
    /\ Head(calls[t]).op = "update_location_wiki"
    /\ Head(calls[t]).arg[1] = location_key

\* C26: no step deletes or adds a location or changes a seeded column of one; a step
\* that changes a location row is the statement of update_location_wiki for that
\* location's key, and the row it leaves has the title and summary passed; whatever
\* becomes durable is what the connection holds.  (Under Spec: the cycles of all three
\* sources with their upserts, and the run-log writes of fetch_all.)
C26_DimensionsOnlyEnriched ==
    [][/\ Cardinality(conn_loc') = Cardinality(conn_loc)
       /\ {SeededColumns(r) : r \in conn_loc'} = {SeededColumns(r) : r \in conn_loc}
       /\ \A r \in conn_loc :
             r \notin conn_loc' =>
                \E t \in Threads :
                   /\ IsWikiUpdateOf(t, r[1])
                   /\ SeededColumns(r) \o <<Head(calls[t]).arg[2], Head(calls[t]).arg[3]>> \in conn_loc'
       /\ disk_loc' \in {disk_loc, conn_loc'}]_vars

\* C26 witness: Amsterdam has been enriched, fact rows and a Run Record have been
\* stored since, and the other two locations are as seeded
C26_Witness ==
    /\ \E r \in disk_loc : r[1] = "ams" /\ r[6] = "Amsterdam" /\ r[7] = "Capital of the Netherlands"
    /\ \A r \in disk_loc : r[1] # "ams" => r \in SeedLocations
    /\ disk_env # {}
    /\ Len(disk_run_log) > 0

\* the sequence starts with the other one
StartsWith(log, earlier) ==
    Len(log) >= Len(earlier) /\ SubSeq(log, 1, Len(earlier)) = earlier

\* C27: no storage call changes or removes a row of the run log, in the connection or on
\* disk; a call that adds to it is a log_run, it adds one row, at the end, and the row
\* holds the started, finished, ok (as 1 or 0) and message passed, and is durable when
\* the call returns.
C27_RunLogAppendOnly ==
    [][/\ StartsWith(conn_run_log', conn_run_log)
       /\ StartsWith(disk_run_log', disk_run_log)
       /\ conn_run_log' # conn_run_log =>
             /\ last_call'.op = "log_run"
             /\ Len(conn_run_log') = Len(conn_run_log) + 1
             /\ LastOf(conn_run_log') = <<last_call'.rows[1], last_call'.rows[2],
                                          IF last_call'.rows[3] THEN 1 ELSE 0, last_call'.rows[4]>>
             /\ disk_run_log' = conn_run_log']_vars

\* C27 witness: two different records were logged and an upsert was made after them
C27_Witness ==
    /\ disk_run_log = <<<<"t0", "t1", 1, "ok">>, <<"t0", "t1", 0, "boom">>>>
    /\ last_call.op = "upsert_macro"
    /\ disk_macro # {}

---------------------------------------------------------------------------
(* Claims about the read queries on the macro facts, checked under SpecTransform *)

\* the rows stored for the indicator and the region
StoredFor(indicator, region) == {r \in conn_macro : r[2] = indicator /\ r[1] = region}

\* the regions that have data for the indicator
RegionsOf(indicator) == {r[1] : r \in {q \in conn_macro : q[2] = indicator}}

\* the row holds the region's greatest stored year and the value stored for it
IsLatestOf(row, indicator, region) ==
    /\ row[1] = region
    /\ <<region, indicator, row[2], row[3]>> \in conn_macro
    /\ \A r \in StoredFor(indicator, region) : r[3] <= row[2]

---------------------------------------------------------------------------
(* Claims about the requests of the macro adapter, checked under SpecFetch *)

---------------------------------------------------------------------------
(* Claims about timestamps only the air-quality payload has, checked under SpecTransform *)

\* the rows transform_environment passed to upsert_env_hourly in its last call
EmittedRows ==
    UNION {Range(xf_call.upserts[b]) : b \in DOMAIN xf_call.upserts}

\* C30: after a transform_environment that did not raise, for every location and every
\* timestamp that its air-quality envelope has and its weather envelope lacks, a row
\* (location, timestamp) was emitted with the weather measures unset and the four
\* air-quality measures of the payload.
C30_AirOnlyRowEmitted ==
    (xf_call.op = "transform_environment" /\ ~xf_call.raised) =>
        \A key \in LocationKeys :
            LET w == EnvelopeOf(xf_call.raw_results, WeatherLabel(key))
                a == EnvelopeOf(xf_call.raw_results, AirLabel(key))
            IN  \A ts \in Range(TimesOf(a)) \ Range(TimesOf(w)) :
                    (<<key, ts, None, None, None>> \o AirAt(a, ts)) \in EmittedRows

---------------------------------------------------------------------------
(* Claims about bodies that cannot be parsed, checked under SpecFetch *)

\* the request got a 2xx response whose body is not JSON
UnparsableBody(request) ==
    /\ request.resp.received
    /\ Is2xx(request.resp.status_code)
    /\ request.resp.json = NotJson

\* C31: a request of a JSON adapter that got a 2xx response with a body that cannot be
\* parsed has an envelope of its own, marked failed (so the adapter did not raise on it,
\* and went on with its enumeration).
C31_UnparsableBodyYieldsFailedEnvelope ==
    adapter # "wikipedia" =>
        \A i \in DOMAIN requested :
            UnparsableBody(requested[i]) =>
                /\ Len(results) >= i
                /\ ~results[i].ok

---------------------------------------------------------------------------
(* RepeatedScheduler (src/scheduler.py): start() and stop() called by one     *)
(* thread, each taken as one step; every threading.Timer runs _run on a       *)
(* thread of its own, taken in its steps: the timer expires, _run tests       *)
(* _running, calls func, func returns, _run arms the next timer.              *)
(* A timer is "unmade", "armed", "run", "call", "func", "rearm", "done" or     *)
(* "cancelled".                                                               *)

OtherFrames == <<storeVars, histVars, svcVars, clockVars, netVars, xfVars, notifyVars, mongoVars,
                 labelVars>>

\* start(): nothing if _running, else _running = True and a Timer(0, self._run) started
start ==
    /\ IF _running
       THEN UNCHANGED <<_running, _timer, timers, made>>
       ELSE /\ made < MaxTimers
            /\ _running' = TRUE
            /\ made' = made + 1
            /\ _timer' = made + 1
            /\ timers' = [timers EXCEPT ![made + 1] = "armed"]
    /\ stopped' = FALSE
    /\ UNCHANGED <<invoked, OtherFrames>>

\* Timer.cancel(): a timer still waiting never runs its function, any other is unaffected
Cancel(state) == IF state = "armed" THEN "cancelled" ELSE state

\* stop(): _running = False; if self._timer: cancel it, _timer = None
stop ==
    /\ _running' = FALSE
    /\ timers' = IF _timer # 0 THEN [timers EXCEPT ![_timer] = Cancel(@)] ELSE timers
    /\ _timer' = 0
    /\ stopped' = TRUE
    /\ UNCHANGED <<made, invoked, OtherFrames>>

\* the timer's interval has passed: its thread calls self._run
timer_expires(i) ==
    /\ timers[i] = "armed"
    /\ timers' = [timers EXCEPT ![i] = "run"]
    /\ UNCHANGED <<_running, _timer, made, invoked, stopped, OtherFrames>>

\* _run: "if not self._running: return"
_run(i) ==
    /\ timers[i] = "run"
    /\ timers' = [timers EXCEPT ![i] = IF _running THEN "call" ELSE "done"]
    /\ UNCHANGED <<_running, _timer, made, invoked, stopped, OtherFrames>>

\* _run: self.func() is called
func_called(i) ==
    /\ timers[i] = "call"
    /\ timers' = [timers EXCEPT ![i] = "func"]
    /\ invoked' = invoked + 1
    /\ UNCHANGED <<_running, _timer, made, stopped, OtherFrames>>

\* self.func() returns
func_returns(i) ==
    /\ timers[i] = "func"
    /\ timers' = [timers EXCEPT ![i] = "rearm"]
    /\ UNCHANGED <<_running, _timer, made, invoked, stopped, OtherFrames>>

\* _run: self._timer = threading.Timer(self.interval, self._run), started; _running is
\* not looked at again
_run_rearm(i) ==
    /\ timers[i] = "rearm"
    /\ made < MaxTimers
    /\ made' = made + 1
    /\ _timer' = made + 1
    /\ timers' = [timers EXCEPT ![i] = "done", ![made + 1] = "armed"]
    /\ UNCHANGED <<_running, invoked, stopped, OtherFrames>>

NextTimer ==
    \/ start
    \/ stop
    \/ \E i \in 1..MaxTimers :
         \/ timer_expires(i)
         \/ _run(i)
         \/ func_called(i)
         \/ func_returns(i)
         \/ _run_rearm(i)

SpecTimer == Init /\ [][NextTimer]_vars

---------------------------------------------------------------------------
(* Claims about malformed payloads, checked under SpecMalformed *)

\* the envelopes of the call hold a record the transform makes a row of
HasUsableRecord(raw_results) ==
    \E i \in 1..Len(raw_results) :
        raw_results[i] \in {WeatherAms2, WeatherBru, MacroUnemployment, MacroStringEntry,
                            WeatherAms, WeatherAmsLater, MacroFourRegions, MacroSomeSkipped,
                            MacroYearList}

\* C32: no call of transform_environment or transform_macro raises, whatever its
\* payloads hold, and a call whose envelopes hold well-formed records upserts rows.
C32_MalformedDataSkippedPerRecord ==
    xf_call.op # "none" =>
        /\ ~xf_call.raised
        /\ HasUsableRecord(xf_call.raw_results) => xf_call.upserts # <<>>

---------------------------------------------------------------------------
(* Claims about the upsert calls of one transform call, checked under SpecTransform *)

\* C33: a call of transform_environment or transform_macro that returns has issued at
\* most one upsert call: the rows of one cycle are never split over several calls.
C33_OneUpsertPerTransformCall ==
    (xf_call.op # "none" /\ ~xf_call.raised) => Len(xf_call.upserts) <= 1

---------------------------------------------------------------------------
(* Claims about the stages of one cycle, checked under Spec *)

\* C34: the stages of a cycle follow one another: the step a cycle takes once its fetch
\* stage and every storage call of its transform stage are done writes the cycle's
\* Source Run Record, and the cycle goes on from there (to its completion message)
\* without an exception.
C34_RecordFollowsTransform ==
    [][\A t \in Threads :
          (pc[t] = "log_source_run" /\ pc'[t] # "log_source_run") =>
              /\ calls[t] = <<>>
              /\ Len(source_runs') = Len(source_runs) + 1
              /\ pc'[t] # "except"]_vars

---------------------------------------------------------------------------
(* Claims about the next-due times of the scheduler loop, checked under SpecSched *)

\* C35: when a cycle the scheduler triggered completes, the next-due time of its source
\* is moved past the moment of completion (by the source's interval, which is more
\* than nothing), so that the source is not due again before an interval has passed.
C35_NextDueAdvancedFromCompletion ==
    [][(cycle["sched"] # "none" /\ cycle'["sched"] = "none") =>
           next_due'[cycle["sched"]] > now]_vars

---------------------------------------------------------------------------
(* Claims about a failing audit write, checked under SpecAudit *)

\* C36: a cycle whose audit write fails (the audit store marked available, the server
\* not reachable) still goes on from its fetch stage to its transform and record
\* stages: it does not take its except branch, and no exception is held for it.
C36_AuditFailureDoesNotAbortCycle ==
    [][\A t \in Threads :
          (pc[t] = "fetch" /\ pc'[t] # "fetch" /\ mongo_client /\ ~mongo_up) =>
              /\ pc'[t] \in {"execute", "log_source_run"}
              /\ exc'[t] = None]_vars

---------------------------------------------------------------------------
(* Claims about the enrichment of locations, checked under SpecWiki *)

\* the scrape whose result is results[i] got a 2xx response
ScrapeSucceeded(i) ==
    requested[i].resp.received /\ Is2xx(requested[i].resp.status_code)

---------------------------------------------------------------------------
(* Claims about source labels, checked under SpecLabel *)

\* C38: whatever location key or indicator code a label was built from, the transform
\* does not skip the label, and the category and the key it takes from it are the
\* category and the key the adapter put into it.
C38_LabelRoundTrip ==
    roundtrip.adapter # "none" =>
        /\ ~roundtrip.skipped
        /\ roundtrip.got_category = roundtrip.category
        /\ roundtrip.got_key = roundtrip.key

---------------------------------------------------------------------------
(* Claims about restarting the scheduler, checked under SpecSched *)

\* C39: a call of start_scheduler leaves the scheduler loop running: when the call
\* returns a loop thread is alive and the stop flag is clear, so that the thread stays
\* in its loop; also when the call follows a stop_scheduler that the previous thread
\* has not yet seen.
C39_StartLeavesLoopRunning ==
    [][start_calls' = start_calls + 1 =>
           /\ pc'["sched"] \notin {"none", "dead", "exited"}
           /\ ~stop_event']_vars

---------------------------------------------------------------------------
(* Claims about RepeatedScheduler, checked under SpecTimer *)

\* the timers waiting to run _run
Armed == {i \in 1..MaxTimers : timers[i] = "armed"}

\* C40: at no time is more than one timer armed, and no step invokes the function
\* while the last call made was a stop() that has returned.
C40_OneTimerChainNoCallAfterStop ==
    [][/\ Cardinality(Armed') <= 1
       /\ invoked' > invoked => ~stopped]_vars

====
